---------------------------- MODULE Spec2Model ----------------------------
(***************************************************************************)
(* Cypherpunk Quotes Bot: the scheduled posting script (bot/index.ts) and  *)
(* the dashboard post action (usePostQuote, lib/botService.ts,             *)
(* lib/quotes.ts).                                                         *)
(*                                                                         *)
(* Strings the code inspects character by character (keys, error          *)
(* messages) are sequences of one-character strings.                       *)
(***************************************************************************)
EXTENDS Integers, Sequences, FiniteSets, TLC

(***************************************************************************)
(* Bounds of the model.                                                    *)
(***************************************************************************)
MaxRelays == 2
MaxRuns == 2
MaxPosts == 2
MaxTagLen == 3
MaxRecords == 1

(***************************************************************************)
(* Program constants.                                                      *)
(***************************************************************************)
CAP == 100
DASH_CAP == 50
DEFAULT_MAX_RECENT == 20
HEX_KEY_LENGTH == 64

(***************************************************************************)
(* String helpers.                                                         *)
(***************************************************************************)
Rep(c, n) == [i \in 1..n |-> c]

UpperChars == <<"A","B","C","D","E","F","G","H","I","J","K","L","M",
                "N","O","P","Q","R","S","T","U","V","W","X","Y","Z">>
LowerChars == <<"a","b","c","d","e","f","g","h","i","j","k","l","m",
                "n","o","p","q","r","s","t","u","v","w","x","y","z">>

ToLowerChar(c) ==
    IF \E i \in 1..26 : UpperChars[i] = c
    THEN LowerChars[CHOOSE i \in 1..26 : UpperChars[i] = c]
    ELSE c

toLowerCase(s) == [i \in 1..Len(s) |-> ToLowerChar(s[i])]

includes(s, needle) ==
    \E i \in 1..(Len(s) - Len(needle) + 1) :
        SubSeq(s, i, i + Len(needle) - 1) = needle

startsWith(s, p) == Len(s) >= Len(p) /\ SubSeq(s, 1, Len(p)) = p

WhiteSpace == {" ", "\t", "\n"}

RECURSIVE trimStart(_)
trimStart(s) ==
    IF s # <<>> /\ Head(s) \in WhiteSpace THEN trimStart(Tail(s)) ELSE s

RECURSIVE trimEnd(_)
trimEnd(s) ==
    IF s # <<>> /\ s[Len(s)] \in WhiteSpace
    THEN trimEnd(SubSeq(s, 1, Len(s) - 1))
    ELSE s

trim(s) == trimEnd(trimStart(s))

\* Array.prototype.slice(-n): the last n elements, the whole array if shorter.
SliceLast(s, n) ==
    IF Len(s) <= n THEN s ELSE SubSeq(s, Len(s) - n + 1, Len(s))

Range(s) == {s[i] : i \in 1..Len(s)}

(***************************************************************************)
(* Private keys.                                                           *)
(***************************************************************************)
HexDigits == <<"0","1","2","3","4","5","6","7","8","9",
               "a","b","c","d","e","f">>

IsHexChar(c) == \E i \in 1..16 : HexDigits[i] = ToLowerChar(c)
HexVal(c) == (CHOOSE i \in 1..16 : HexDigits[i] = ToLowerChar(c)) - 1

\* Buffer.from(str, 'hex'): decodes pairs of hex digits and stops at the
\* first pair that is not two hex digits (an odd trailing digit is dropped).
RECURSIVE BufferFromHex(_)
BufferFromHex(s) ==
    IF Len(s) >= 2 /\ IsHexChar(s[1]) /\ IsHexChar(s[2])
    THEN <<16 * HexVal(s[1]) + HexVal(s[2])>> \o BufferFromHex(SubSeq(s, 3, Len(s)))
    ELSE <<>>

NsecPrefix == <<"n","s","e","c","1">>
NpubPrefix == <<"n","p","u","b","1">>

KeyHex == Rep("a", 64)
KeyHexShort == Rep("a", 63)
KeyNonHex == Rep("z", 64)
KeyHalfHex == Rep("a", 62) \o <<"z","z">>
KeyZero == Rep("0", 64)
KeyNsec == NsecPrefix \o Rep("q", 58)
KeyNsecBad == NsecPrefix \o Rep("b", 3)
KeyNpub == NpubPrefix \o Rep("q", 58)
KeyEphemeral == Rep("e", 64)
KeyUnset == <<>>

\* The keys a bot run may be started with (NOSTR_PRIVATE_KEY of the
\* environment); KeyUnset is the variable left unset.
BotKeys == {KeyHex, KeyHexShort, KeyNonHex, KeyHalfHex, KeyZero, KeyNsecBad,
            KeyNpub, KeyUnset}

\* The key strings parsePrivateKey is called with directly: a prefix, a body
\* of one repeated character, optional surrounding white space.
KeyPrefixes == {<<>>, NsecPrefix, NpubPrefix}
KeyBodyChars == {"a", "F", "0", "z", "q"}
KeyBodyLengths == {3, 58, 59, 62, 63, 64, 65}
KeyPaddings == {<<>>, <<" ">>, <<"\n">>}
KeyFamily ==
    {pl \o pre \o Rep(c, n) \o pr :
        pl \in KeyPaddings, pre \in KeyPrefixes, c \in KeyBodyChars,
        n \in KeyBodyLengths, pr \in KeyPaddings}

\* nip19.decode (library): the bech32 strings that decode, with their type
\* and payload; every other string makes decode throw.
Nip19Table == {[code |-> KeyNsec, type |-> "nsec", data |-> Rep(7, 32)],
               [code |-> KeyNpub, type |-> "npub", data |-> Rep(9, 32)]}

nip19Decodes(s) == \E e \in Nip19Table : e.code = s
nip19Decode(s) == CHOOSE e \in Nip19Table : e.code = s

ErrInvalidNsec == "Invalid nsec key"
ErrHexLength == "Invalid hex private key length"
ErrDecode == "nip19.decode failed"
ErrBadSecret == "invalid private key"

\* parsePrivateKey: [ok, bytes, error].
parsePrivateKey(keyStr0) ==
    LET keyStr == trim(keyStr0) IN
    IF startsWith(keyStr, NsecPrefix)
    THEN IF ~nip19Decodes(keyStr)
         THEN [ok |-> FALSE, bytes |-> <<>>, error |-> ErrDecode]
         ELSE IF nip19Decode(keyStr).type # "nsec"
              THEN [ok |-> FALSE, bytes |-> <<>>, error |-> ErrInvalidNsec]
              ELSE [ok |-> TRUE, bytes |-> nip19Decode(keyStr).data, error |-> ""]
    ELSE IF Len(keyStr) # HEX_KEY_LENGTH
         THEN [ok |-> FALSE, bytes |-> <<>>, error |-> ErrHexLength]
         ELSE [ok |-> TRUE, bytes |-> BufferFromHex(keyStr), error |-> ""]

\* getPublicKey (library, secp256k1): throws unless the secret is 32 bytes
\* long and a scalar in 1..n-1.
ValidSecret(bytes) ==
    /\ Len(bytes) = 32
    /\ \E i \in 1..Len(bytes) : bytes[i] # 0
    /\ \E i \in 1..16 : bytes[i] # 255

\* The two accepted forms of a supplied key: 64 hex characters, or an encoded
\* secret key (nsec) that decodes.
IsHex64(s) == Len(s) = HEX_KEY_LENGTH /\ \A i \in 1..Len(s) : IsHexChar(s[i])
IsEncodedSecret(s) == nip19Decodes(s) /\ nip19Decode(s).type = "nsec"
AcceptedKeyForm(s) == IsHex64(trim(s)) \/ IsEncodedSecret(trim(s))


(***************************************************************************)
(* Errors caught in the relay loops: a thrown value is an Error instance   *)
(* with a message, or some other value (a string, an event object).        *)
(***************************************************************************)
NeedleDuplicate == <<"d","u","p","l","i","c","a","t","e">>
MsgDupSpec == <<"e","v","e","n","t"," ","a","l","r","e","a","d","y"," ","e","x","i","s","t","s"," ","(","d","u","p","l","i","c","a","t","e",")">>
MsgDupUpper == <<"D","U","P","L","I","C","A","T","E",":"," ","h","a","v","e"," ","i","t">>
MsgBlocked == <<"b","l","o","c","k","e","d",":"," ","s","p","a","m">>
MsgNearMiss == <<"d","u","p","l","i","c","a","t"," ","e">>
MsgTimeout == <<"T","i","m","e","o","u","t"," ","w","a","i","t","i","n","g"," ","f","o","r"," ","r","e","l","a","y"," ","c","o","n","f","i","r","m","a","t","i","o","n">>
MsgUnknown == <<"U","n","k","n","o","w","n"," ","e","r","r","o","r">>
MsgConnRefused == <<"c","o","n","n","e","c","t"," ","E","C","O","N","N","R","E","F","U","S","E","D">>
MsgWsError == <<"w","e","b","s","o","c","k","e","t"," ","e","r","r","o","r">>

NoError == [isError |-> FALSE, message |-> <<>>]
Err(m) == [isError |-> TRUE, message |-> m]
NonErr(m) == [isError |-> FALSE, message |-> m]

\* What Relay.connect may reject with, and what relay.publish may reject
\* with. A whole bot run is explored with one rejection of each class, a
\* direct call of publishToRelays with all of them.
ConnectThrown(prog) ==
    IF prog = "bot" THEN {Err(MsgConnRefused)}
    ELSE {Err(MsgConnRefused), NonErr(MsgWsError), Err(MsgDupUpper)}
PublishThrown(prog) ==
    IF prog = "bot" THEN {Err(MsgDupSpec)}
    ELSE {Err(MsgDupSpec), Err(MsgDupUpper), Err(MsgBlocked),
          Err(MsgNearMiss), NonErr(NeedleDuplicate)}

\* bot/index.ts line 622: error instanceof Error ? error.message : 'Unknown error'
MessageOf(error) == IF error.isError THEN error.message ELSE MsgUnknown

\* Mutant of IsDuplicateMessage: the comparison without toLowerCase.
IsDuplicateMessageCaseSensitive(message) == includes(message, NeedleDuplicate)

\* bot/index.ts line 626
IsDuplicateMessage(message) == includes(toLowerCase(message), NeedleDuplicate)

\* The entry the catch block of publishToRelays pushes for a caught error.
CatchResult(url, error) ==
    LET message == MessageOf(error) IN
    IF IsDuplicateMessage(message)
    THEN [relay |-> url, success |-> TRUE, error |-> <<>>]
    ELSE [relay |-> url, success |-> FALSE, error |-> message]

SuccessResult(url) == [relay |-> url, success |-> TRUE, error |-> <<>>]

successCount(rs) == Cardinality({i \in 1..Len(rs) : rs[i].success})

(***************************************************************************)
(* The quote dataset (src/data/quotes.json): a non-empty array of quotes.  *)
(* year 0 and source <<>> stand for an absent field.                       *)
(***************************************************************************)
quotes ==
    << [id |-> "q1", text |-> <<"P","r","i","v">>,
        author |-> <<"E","r","i","c"," ","H","u","g","h","e","s">>,
        source |-> <<"M","a","n","i","f","e","s","t","o">>, year |-> 1993,
        tags |-> << <<"p","r","i","v","a","c","y">>,
                    <<"o","p","e","n","-","s","o","u","r","c","e">> >>],
       [id |-> "q2", text |-> <<"C","a","s","h">>,
        author |-> <<"S","a","t","o","s","h","i">>,
        source |-> <<>>, year |-> 2008,
        tags |-> << <<"D","i","g","i","t","a","l"," ","C","a","s","h">> >>],
       [id |-> "q3", text |-> <<"C","o","d","e">>,
        author |-> <<"T","i","m"," ","M","a","y">>,
        source |-> <<"L","i","s","t">>, year |-> 0,
        tags |-> << >>] >>

QuoteIds == {quotes[i].id : i \in 1..Len(quotes)}
NoQuote == [id |-> "none", text |-> <<>>, author |-> <<>>, source |-> <<>>,
            year |-> 0, tags |-> <<>>]

\* Array.prototype.filter, order kept.
RECURSIVE Filter(_, _)
Filter(s, excluded) ==
    IF s = <<>> THEN <<>>
    ELSE IF Head(s).id \in excluded THEN Filter(Tail(s), excluded)
         ELSE <<Head(s)>> \o Filter(Tail(s), excluded)

\* [...new Set(xs)]: first occurrences, in order.
Dedup(xs) ==
    LET firsts == {i \in 1..Len(xs) : \A j \in 1..(i - 1) : xs[j] # xs[i]}
        rank == [i \in firsts |-> Cardinality({j \in firsts : j <= i})]
    IN IF Cardinality(firsts) = Len(xs) THEN xs
       ELSE [k \in 1..Cardinality(firsts) |->
                xs[CHOOSE i \in firsts : rank[i] = k]]

\* Mutant of BotRecentSet: the ids found on the network are left out.
BotRecentSetLocalOnly(recentIds, nostrIds) ==
    Range(SliceLast(recentIds, CAP))

\* bot/index.ts getRandomQuote, lines 504-505: the exclusion set.
BotRecentSet(recentIds, nostrIds) ==
    Range(SliceLast(Dedup(recentIds \o nostrIds), CAP))

\* lib/quotes.ts getRandomQuoteExcluding, line 38.
DashRecentSet(recentIds, maxRecent) == Range(SliceLast(recentIds, maxRecent))

\* Mutant of Selectable: the filter is skipped.
SelectableUnfiltered(recentSet) == Range(quotes)

\* The quotes Math.random may pick, given the exclusion set (both variants):
\* the filtered array, or the whole dataset when the filter leaves nothing.
Selectable(recentSet) ==
    LET availableQuotes == Filter(quotes, recentSet) IN
    IF Len(availableQuotes) = 0 THEN Range(quotes) ELSE Range(availableQuotes)


(***************************************************************************)
(* Composing the event (bot/index.ts).                                     *)
(***************************************************************************)
\* normalizeHashtag: tag.toLowerCase().replace(/[-\s]/g, '')
RECURSIVE StripDashSpace(_)
StripDashSpace(s) ==
    IF s = <<>> THEN <<>>
    ELSE IF Head(s) \in WhiteSpace \cup {"-"} THEN StripDashSpace(Tail(s))
         ELSE <<Head(s)>> \o StripDashSpace(Tail(s))

\* Mutant of normalizeHashtag: the pattern without its g flag, only the first
\* hyphen or white space is removed.
normalizeHashtagFirstOnly(tag) ==
    LET lower == toLowerCase(tag)
        hits == {i \in 1..Len(lower) : lower[i] \in WhiteSpace \cup {"-"}}
    IN IF hits = {} THEN lower
       ELSE LET first == CHOOSE i \in hits : \A j \in hits : i <= j
            IN SubSeq(lower, 1, first - 1) \o SubSeq(lower, first + 1, Len(lower))

normalizeHashtag(tag) == StripDashSpace(toLowerCase(tag))

DigitChars == <<"0","1","2","3","4","5","6","7","8","9">>

RECURSIVE NatToChars(_)
NatToChars(n) ==
    IF n < 10 THEN <<DigitChars[n + 1]>>
    ELSE NatToChars(n \div 10) \o <<DigitChars[(n % 10) + 1]>>

RECURSIVE HashtagLine(_)
HashtagLine(ts) ==
    IF ts = <<>> THEN <<>>
    ELSE IF Len(ts) = 1 THEN <<"#">> \o Head(ts)
         ELSE <<"#">> \o Head(ts) \o <<" ">> \o HashtagLine(Tail(ts))

\* The em-dash character (U+2014).
EmDash == "_emdash_"

\* Mutant of formatQuote: the source-only branch is tested first.
formatQuoteSourceFirst(quote) ==
    LET head == <<"\"">> \o quote.text \o <<"\"">> \o <<"\n","\n",EmDash," ">> \o quote.author
        suffix == IF quote.source # <<>>
                  THEN <<" ","(">> \o quote.source \o <<")">>
                  ELSE IF quote.year # 0
                       THEN <<" ","(">> \o NatToChars(quote.year) \o <<")">>
                       ELSE <<>>
        normalizedTags == [i \in 1..Len(quote.tags) |-> normalizeHashtag(quote.tags[i])]
        hashtags == IF Len(quote.tags) > 0
                    THEN <<"\n","\n">> \o HashtagLine(normalizedTags)
                    ELSE <<>>
    IN head \o suffix \o hashtags

formatQuote(quote) ==
    LET head == <<"\"">> \o quote.text \o <<"\"">> \o <<"\n","\n",EmDash," ">> \o quote.author
        suffix == IF quote.source # <<>> /\ quote.year # 0
                  THEN <<" ","(">> \o quote.source \o <<","," ">> \o NatToChars(quote.year) \o <<")">>
                  ELSE IF quote.source # <<>>
                       THEN <<" ","(">> \o quote.source \o <<")">>
                       ELSE IF quote.year # 0
                            THEN <<" ","(">> \o NatToChars(quote.year) \o <<")">>
                            ELSE <<>>
        normalizedTags == [i \in 1..Len(quote.tags) |-> normalizeHashtag(quote.tags[i])]
        hashtags == IF Len(quote.tags) > 0
                    THEN <<"\n","\n">> \o HashtagLine(normalizedTags)
                    ELSE <<>>
    IN head \o suffix \o hashtags

\* Mutant of generateTags: the author tag is pushed before the quote's tags.
generateTagsAuthorFirst(quote) ==
    << <<"t", normalizeHashtag(quote.author)>> >>
    \o [i \in 1..Len(quote.tags) |-> <<"t", normalizeHashtag(quote.tags[i])>>]
    \o << <<"quote_id", quote.id>>,
          <<"client", "Cypherpunk Quotes Bot">> >>

generateTags(quote) ==
    [i \in 1..Len(quote.tags) |-> <<"t", normalizeHashtag(quote.tags[i])>>]
    \o << <<"t", normalizeHashtag(quote.author)>>,
          <<"quote_id", quote.id>>,
          <<"client", "Cypherpunk Quotes Bot">> >>

\* getPublicKey (library): the identity of a secret key.
getPublicKey(secretBytes) == <<"npub", secretBytes[1]>>

\* finalizeEvent (library): the signed event; its id is a function of these
\* fields.
finalizeEvent(template, secretBytes) ==
    [kind |-> template.kind, created_at |-> template.created_at,
     tags |-> template.tags, content |-> template.content,
     pubkey |-> getPublicKey(secretBytes)]

NoEvent == [kind |-> 0, created_at |-> 0, tags |-> <<>>, content |-> <<>>,
            pubkey |-> <<>>]

\* bot/index.ts lines 694-712.
ComposeEvent(quote, secretBytes, time) ==
    finalizeEvent([kind |-> 1, created_at |-> time,
                   tags |-> generateTags(quote),
                   content |-> formatQuote(quote)], secretBytes)

\* The quote_id values a list of events carries (lines 459-464).
RECURSIVE ExtractQuoteIds(_)
ExtractQuoteIds(list) ==
    IF list = <<>> THEN <<>>
    ELSE LET tags == Head(list).tags
             hits == {i \in 1..Len(tags) : tags[i][1] = "quote_id"}
         IN (IF hits = {} THEN <<>>
             ELSE LET first == CHOOSE i \in hits : \A j \in hits : i <= j
                  IN <<tags[first][2]>>)
            \o ExtractQuoteIds(Tail(list))

\* The events of a relay that match the subscription filter (kind 1 of the
\* given author).
RECURSIVE Matching(_, _)
Matching(list, author) ==
    IF list = <<>> THEN <<>>
    ELSE IF Head(list).kind = 1 /\ Head(list).pubkey = author
         THEN <<Head(list)>> \o Matching(Tail(list), author)
         ELSE Matching(Tail(list), author)

(***************************************************************************)
(* Composing the event in the dashboard (lib/quotes.ts, lib/botService.ts, *)
(* usePostQuote).                                                          *)
(***************************************************************************)
\* lib/botService.ts lines 11-21 (the relays of the configuration are the
\* variable relays).
DEFAULT_BOT_CONFIG ==
    [intervalHours |-> 8,
     hashtags |-> << <<"c","y","p","h","e","r","p","u","n","k">>,
                     <<"b","i","t","c","o","i","n">>,
                     <<"p","r","i","v","a","c","y">>,
                     <<"f","r","e","e","d","o","m">> >>]

\* The three characters lib/quotes.ts line 81 holds in the place of the
\* em-dash (U+00E2 U+20AC U+201D).
DashMisencoded == "_a-circumflex_euro_right-quote_"

\* lib/quotes.ts formatQuoteForNostr.
formatQuoteForNostr(quote) ==
    LET head == <<"\"">> \o quote.text \o <<"\"">> \o <<"\n","\n",DashMisencoded," ">> \o quote.author
        suffix == IF quote.source # <<>> /\ quote.year # 0
                  THEN <<" ","(">> \o quote.source \o <<","," ">> \o NatToChars(quote.year) \o <<")">>
                  ELSE IF quote.source # <<>>
                       THEN <<" ","(">> \o quote.source \o <<")">>
                       ELSE IF quote.year # 0
                            THEN <<" ","(">> \o NatToChars(quote.year) \o <<")">>
                            ELSE <<>>
    IN head \o suffix

\* replace(/\s+/g, '-'): every run of white space becomes one dash.
RECURSIVE SpacesToDash(_)
SpacesToDash(s) ==
    IF s = <<>> THEN <<>>
    ELSE IF Head(s) \in WhiteSpace
         THEN <<"-">> \o SpacesToDash(trimStart(s))
         ELSE <<Head(s)>> \o SpacesToDash(Tail(s))

\* Array.prototype.filter(tag => !config.hashtags.includes(tag)), order kept.
RECURSIVE NotIncluded(_, _)
NotIncluded(ts, hashtags) ==
    IF ts = <<>> THEN <<>>
    ELSE IF Head(ts) \in Range(hashtags) THEN NotIncluded(Tail(ts), hashtags)
         ELSE <<Head(ts)>> \o NotIncluded(Tail(ts), hashtags)

\* lib/botService.ts generateQuoteTags.
generateQuoteTags(quote, config) ==
    LET own == NotIncluded(quote.tags, config.hashtags) IN
    [i \in 1..Len(config.hashtags) |-> <<"t", config.hashtags[i]>>]
    \o [i \in 1..Len(own) |-> <<"t", own[i]>>]
    \o << <<"t", SpacesToDash(toLowerCase(quote.author))>>,
          <<"client", "Cypherpunk Quotes Bot">> >>

\* Array.prototype.slice(0, n).
SliceFirst(s, n) == IF Len(s) <= n THEN s ELSE SubSeq(s, 1, n)

\* lib/botService.ts formatQuoteWithHashtags, lines 148-158: the preview the
\* dashboard shows.
formatQuoteWithHashtags(quote, config) ==
    LET allTags == Dedup(config.hashtags \o SliceFirst(quote.tags, 3))
    IN formatQuoteForNostr(quote) \o <<"\n","\n">> \o HashtagLine(allTags)

\* Mutant of PostTemplate: every tag of the quote goes into the hashtags.
PostTemplateAllTags(quote, config, includeHashtags) ==
    LET allTags == Dedup(config.hashtags \o quote.tags)
        content == formatQuoteForNostr(quote)
                   \o (IF includeHashtags
                       THEN <<"\n","\n">> \o HashtagLine(allTags)
                       ELSE <<>>)
    IN [kind |-> 1, content |-> content,
        tags |-> generateQuoteTags(quote, config)]

\* usePostQuote.mutationFn lines 18-38: the template handed to createEvent.
PostTemplate(quote, config, includeHashtags) ==
    LET allTags == Dedup(config.hashtags \o SliceFirst(quote.tags, 3))
        content == formatQuoteForNostr(quote)
                   \o (IF includeHashtags
                       THEN <<"\n","\n">> \o HashtagLine(allTags)
                       ELSE <<>>)
    IN [kind |-> 1, content |-> content,
        tags |-> generateQuoteTags(quote, config)]

NoTemplate == [kind |-> 0, content |-> <<>>, tags |-> <<>>]

(***************************************************************************)
(* Persisted history (BotState).                                           *)
(***************************************************************************)
ZeroState == [recentQuoteIds |-> <<>>, lastPostTimestamp |-> 0,
              totalPostsCount |-> 0]

Pattern(n, ids) == [i \in 1..n |-> ids[((i - 1) % Len(ids)) + 1]]

\* n different ids, the oldest one the id of the first quote, the others ids
\* of quotes that have left the dataset.
Distinct(n) == [i \in 1..n |-> IF i = 1 THEN "q1" ELSE "old" \o ToString(i)]

\* The state file two runs leave that each posted the first quote while 98
\* other ids were on record: CAP - 1 different ids, the first quote's id in
\* the first place and, appended by the last run, in the last.
RepeatFile ==
    [recentQuoteIds |-> [i \in 1..CAP |-> IF i \in {1, CAP} THEN "q1"
                                         ELSE "old" \o ToString(i)],
     lastPostTimestamp |-> 0, totalPostsCount |-> 100]

\* State files a bot run may find: written by earlier runs (at most CAP
\* entries) or by hand or an older tool (any length).
InitFiles ==
    { ZeroState,
      [recentQuoteIds |-> Pattern(CAP - 1, <<"q1","q2">>), lastPostTimestamp |-> 0,
       totalPostsCount |-> 150],
      [recentQuoteIds |-> Distinct(CAP), lastPostTimestamp |-> 0,
       totalPostsCount |-> 100],
      [recentQuoteIds |-> Pattern(CAP + 3, <<"q3","q1","old">>), lastPostTimestamp |-> 0,
       totalPostsCount |-> 103],
      RepeatFile }

\* What a persisted document may be: not there, text JSON.parse throws on,
\* the JSON of a BotState, or JSON of another shape (such as {}).
StoredDocs == {"absent", "unparsable", "state", "other"}

\* Mutant of loadStateThrows: JSON.parse outside of a try block.
loadStateThrowsOnParse(doc) == doc = "unparsable"

\* loadState lines 380-387: the catch block swallows every error of
\* existsSync, readFileSync and JSON.parse.
loadStateThrows(doc) == FALSE

\* loadState lines 381-388: the parsed document, or the default state.
loadState(doc, content) ==
    IF doc \in {"state", "other"} THEN content ELSE ZeroState

ErrTypeError == "TypeError: Cannot read properties of undefined (reading 'length')"
ErrJson == "SyntaxError: Unexpected token in JSON"

\* Mutant of UpdatedState: the counter is not incremented.
UpdatedStateNoCount(st, quoteId, time) ==
    LET pushed == Append(st.recentQuoteIds, quoteId) IN
    [recentQuoteIds |-> IF Len(pushed) > CAP THEN SliceLast(pushed, CAP) ELSE pushed,
     lastPostTimestamp |-> time,
     totalPostsCount |-> st.totalPostsCount]

\* Mutant of UpdatedState: slice(0, 100) instead of slice(-100).
UpdatedStateKeepOldest(st, quoteId, time) ==
    LET pushed == Append(st.recentQuoteIds, quoteId) IN
    [recentQuoteIds |-> IF Len(pushed) > CAP THEN SubSeq(pushed, 1, CAP) ELSE pushed,
     lastPostTimestamp |-> time,
     totalPostsCount |-> st.totalPostsCount + 1]

\* bot/index.ts lines 720-728: the state main saves after a publish.
UpdatedState(st, quoteId, time) ==
    LET pushed == Append(st.recentQuoteIds, quoteId) IN
    [recentQuoteIds |-> IF Len(pushed) > CAP THEN SliceLast(pushed, CAP) ELSE pushed,
     lastPostTimestamp |-> time,
     totalPostsCount |-> st.totalPostsCount + 1]

\* lib/botService.ts recordPostedQuote, lines 81-86.
RecordedState(st, quoteId, time) ==
    [recentQuoteIds |-> SliceLast(Append(st.recentQuoteIds, quoteId), DASH_CAP),
     lastPostTimestamp |-> time,
     totalPostsCount |-> st.totalPostsCount + 1]


(***************************************************************************)
(* State.                                                                  *)
(***************************************************************************)
VARIABLES
    program,            \* which program this execution is: the bot script, the
                        \* dashboard, or a direct call of publishToRelays
    runs,               \* bot runs started so far
    now,                \* Date.now()
    NOSTR_PRIVATE_KEY,  \* process.env.NOSTR_PRIVATE_KEY
    privateKeyStr,      \* main: the configured key, read at line 657
    secretKey,          \* main: secretKey
    pubkey,             \* main: pubkey
    pc,                 \* where the bot run (or the call) stands
    exitCode,           \* -1 while the process runs
    thrown,             \* message of the error that left main / publishToRelays
    file,               \* contents of STATE_FILE (when it holds a state)
    fileDoc,            \* what STATE_FILE is, one of StoredDocs
    state,              \* main: state
    relays,             \* main: relays / publishToRelays: relayUrls
    qi,                 \* getRecentPostedQuoteIds: position in relayUrls
    quoteIds,           \* getRecentPostedQuoteIds: quoteIds
    nostrQuoteIds,      \* getRandomQuote: nostrQuoteIds
    events,             \* getRecentPostedQuoteIds: events of this relay
    relayOpen,          \* url of the open relay connection, 0 if none
    quote,              \* main: quote
    event,              \* main: event
    pi,                 \* publishToRelays: position in relayUrls
    results,            \* publishToRelays: results
    caught,             \* publishToRelays: the error caught at this relay
    latePublish,        \* publishToRelays: publishPromise after a lost race
    relayStore,         \* the events each relay holds
    qContacts,          \* connections attempted per relay by the history query
    pContacts,          \* connections attempted per relay by publishToRelays
    submitted,          \* relay.publish calls per relay
    saves,              \* saveState calls of this run (of both overlapping runs)
    couldNotQuery,      \* 'Could not query' lines this run logged (line 474)
    localStorage,       \* dashboard: the stored BotState (when there is one)
    storedDoc,          \* dashboard: what the localStorage item is
    dpc,                \* dashboard: where the post mutation stands
    dQuote,             \* dashboard: the quote being posted
    dEvent,             \* dashboard: the event template handed to createEvent
    dOutcomes,          \* dashboard: per-relay outcome of createEvent
    posts,              \* dashboard: post actions finished
    botState,           \* dashboard: botState of the last render
    selectedQuote,      \* dashboard: selectedQuote
    intervalHours,      \* dashboard: botConfig.intervalHours
    countdown,          \* dashboard: countdown (getTimeUntilNextPost's result)
    due,                \* what shouldPost returned last
    procs               \* two runs of main on one state file: where each
                        \* stands, the state it loaded, the quote it posted

vars == <<program, runs, now, NOSTR_PRIVATE_KEY, privateKeyStr, secretKey,
          pubkey, pc, exitCode, thrown, file, fileDoc, state, relays, qi, quoteIds,
          nostrQuoteIds, events, relayOpen, quote, event, pi, results, relayStore,
          caught, latePublish, qContacts, pContacts, submitted, saves, couldNotQuery,
          localStorage, storedDoc, dpc,
          dQuote, dEvent, dOutcomes, posts, botState, selectedQuote,
          intervalHours, countdown, due, procs>>

schedVars == <<intervalHours, countdown, due>>
sideVars == <<schedVars, procs>>
dashVars == <<localStorage, storedDoc, dpc, dQuote, dEvent, dOutcomes, posts, botState,
              selectedQuote, sideVars>>
counters == <<qContacts, pContacts, submitted, saves, couldNotQuery>>

RelayUrls == 1..MaxRelays
RelayList(k) == [i \in 1..k |-> i]
NoContacts == [r \in RelayUrls |-> 0]
EmptyStores == [r \in RelayUrls |-> <<>>]

\* Earlier posts of the identity of KeyHex, still held by the relays: the
\* first relay holds a post of the first quote, the others one of the second.
PriorPost(r) ==
    ComposeEvent(quotes[IF r = 1 THEN 1 ELSE 2], BufferFromHex(KeyHex), 0)
PriorStores == [r \in RelayUrls |-> <<PriorPost(r)>>]

\* A note of the same identity posted from the dashboard (usePostQuote):
\* kind 1, without a quote_id tag.
DashboardPost ==
    LET template == PostTemplate(quotes[3], DEFAULT_BOT_CONFIG, TRUE) IN
    [kind |-> template.kind, created_at |-> 0, tags |-> template.tags,
     content |-> template.content,
     pubkey |-> getPublicKey(BufferFromHex(KeyHex))]

\* The first relay holds the dashboard's note, the others the bot's post.
MixedStores ==
    [r \in RelayUrls |-> IF r = 1 THEN <<DashboardPost>> ELSE <<PriorPost(r)>>]

\* Every relay holds the bot's posts of the second and of the third quote.
TwoPostStores ==
    [r \in RelayUrls |->
        <<ComposeEvent(quotes[2], BufferFromHex(KeyHex), 0),
          ComposeEvent(quotes[3], BufferFromHex(KeyHex), 0)>>]

InitStores == {EmptyStores, PriorStores, MixedStores, TwoPostStores}

ErrPublish == "Failed to publish to any relay"

InitLocals ==
    /\ privateKeyStr = NOSTR_PRIVATE_KEY
    /\ secretKey = <<>>
    /\ pubkey = <<>>
    /\ exitCode = -1
    /\ thrown = ""
    /\ state = ZeroState
    /\ qi = 1
    /\ quoteIds = <<>>
    /\ nostrQuoteIds = <<>>
    /\ events = <<>>
    /\ relayOpen = 0
    /\ quote = NoQuote
    /\ pi = 1
    /\ results = <<>>
    /\ caught = NoError
    /\ latePublish = "none"
    /\ qContacts = NoContacts
    /\ pContacts = NoContacts
    /\ submitted = NoContacts
    /\ saves = 0
    /\ couldNotQuery = 0

\* lib/botService.ts getBotState: the stored state, or the default state when
\* the item is missing or JSON.parse throws.
getBotState(doc, content) == IF doc = "state" THEN content ELSE ZeroState

\* lib/botService.ts lines 121 and 135: intervalHours * 60 * 60 * 1000.
IntervalMs(hoursOfInterval) == hoursOfInterval * 60 * 60 * 1000

\* Mutant of shouldPost: the interval has to be exceeded.
shouldPostStrict(st, time, hoursOfInterval) ==
    (time - st.lastPostTimestamp) > IntervalMs(hoursOfInterval)

\* lib/botService.ts shouldPost, lines 118-124; st is what getBotState
\* returns and time what Date.now() returns.
shouldPost(st, time, hoursOfInterval) ==
    (time - st.lastPostTimestamp) >= IntervalMs(hoursOfInterval)

Max0(n) == IF n > 0 THEN n ELSE 0

\* lib/botService.ts getTimeUntilNextPost, lines 127-145.
getTimeUntilNextPost(st, time, hoursOfInterval) ==
    LET nextPostTime == st.lastPostTimestamp + IntervalMs(hoursOfInterval)
        remaining == Max0(nextPostTime - time)
    IN [hours |-> remaining \div (60 * 60 * 1000),
        minutes |-> (remaining % (60 * 60 * 1000)) \div (60 * 1000),
        seconds |-> (remaining % (60 * 1000)) \div 1000,
        canPostNow |-> remaining = 0]

\* Index line 64 and botConfig line 71: the countdown before the first
\* timer tick, the interval of the default configuration; shouldPost has
\* not been called.
InitCountdown ==
    /\ intervalHours = DEFAULT_BOT_CONFIG.intervalHours
    /\ countdown = [hours |-> 0, minutes |-> 0, seconds |-> 0,
                    canPostNow |-> TRUE]
    /\ due = FALSE

\* No second run of main.
NoProcs == <<>>

InitDashIdle ==
    /\ dpc = "idle"
    /\ dQuote = NoQuote
    /\ dEvent = NoTemplate
    /\ dOutcomes = <<>>
    /\ posts = 0
    /\ botState = getBotState(storedDoc, localStorage)
    /\ selectedQuote = NoQuote
    /\ InitCountdown

InitBot ==
    /\ program = "bot"
    /\ runs = 1
    /\ now = 1
    /\ pc = "start"
    /\ event = NoEvent
    /\ localStorage = ZeroState
    /\ storedDoc = "state"
    /\ NOSTR_PRIVATE_KEY \in BotKeys
    /\ fileDoc \in StoredDocs
    /\ \E k \in 1..MaxRelays : relays = RelayList(k)
    /\ (NOSTR_PRIVATE_KEY = KeyUnset \/ Len(relays) > 2) => fileDoc = "state"
    /\ file \in
          \* a document that is not a state holds nothing; a run without a
          \* configured key and lists of more than two relays are explored
          \* from a fresh installation
          IF fileDoc # "state" THEN {ZeroState}
          ELSE IF NOSTR_PRIVATE_KEY = KeyUnset \/ Len(relays) > 2
               THEN {ZeroState}
               ELSE IF NOSTR_PRIVATE_KEY = KeyHex THEN InitFiles
                    ELSE InitFiles \ {RepeatFile}
    /\ relayStore \in
          \* the relays that hold two posts are explored with the state file
          \* that has a repetition, and that file with them
          IF file = RepeatFile THEN {TwoPostStores}
          ELSE IF NOSTR_PRIVATE_KEY = KeyUnset THEN {EmptyStores}
               ELSE InitStores \ {TwoPostStores}
    /\ InitLocals
    /\ procs = NoProcs
    /\ InitDashIdle

\* A direct call publishToRelays(event, relayUrls), any list of relays.
InitPublish ==
    /\ program = "publish"
    /\ runs = 1
    /\ now = 1
    /\ NOSTR_PRIVATE_KEY = KeyHex
    /\ pc = "publish"
    /\ file = ZeroState
    /\ fileDoc = "state"
    /\ \E k \in 0..MaxRelays : relays = RelayList(k)
    /\ event = ComposeEvent(quotes[1], BufferFromHex(KeyHex), 1)
    /\ relayStore = EmptyStores
    /\ localStorage = ZeroState
    /\ storedDoc = "state"
    /\ InitLocals
    /\ procs = NoProcs
    /\ InitDashIdle

DashInitStates ==
    { ZeroState,
      [recentQuoteIds |-> Pattern(DASH_CAP, <<"q1","q2","q3">>),
       lastPostTimestamp |-> 0, totalPostsCount |-> 70] }

InitDashboard ==
    /\ program = "dashboard"
    /\ runs = 0
    /\ now = 1
    /\ NOSTR_PRIVATE_KEY = KeyUnset
    /\ pc = "none"
    /\ file = ZeroState
    /\ fileDoc = "state"
    /\ \E k \in 1..MaxRelays : relays = RelayList(k)
    /\ event = NoEvent
    /\ relayStore = EmptyStores
    /\ localStorage \in DashInitStates
    /\ storedDoc \in {"absent", "unparsable", "state"}
    /\ storedDoc # "state" => localStorage = ZeroState
    /\ InitLocals
    /\ procs = NoProcs
    /\ InitDashIdle

\* A direct call parsePrivateKey(keyStr).
InitParse ==
    /\ program = "parse"
    /\ runs = 0
    /\ now = 1
    /\ NOSTR_PRIVATE_KEY \in KeyFamily
    /\ pc = "parse"
    /\ file = ZeroState
    /\ fileDoc = "state"
    /\ relays = <<>>
    /\ event = NoEvent
    /\ relayStore = EmptyStores
    /\ localStorage = ZeroState
    /\ storedDoc = "state"
    /\ InitLocals
    /\ procs = NoProcs
    /\ InitDashIdle

\* The quotes formatQuote, generateTags and the dashboard's composition are
\* called with directly: a quote with or without source and year, and with
\* no tag, one tag of up to MaxTagLen characters, or several tags.
TagChars == {"a", "B", "-", " ", "\t"}
TagFamily == UNION {[1..n -> TagChars] : n \in 0..MaxTagLen}
TagLists ==
    {<<>>, quotes[1].tags, quotes[2].tags,
     << <<"B","-","a">>, <<"b","a">>, <<"B"," ","a">> >>,
     << <<"a">>, <<"p","r","i","v","a","c","y">>, <<"a">>, <<"B">>,
        <<"f","r","e","e","d","o","m">> >>}
    \cup {<<t>> : t \in TagFamily}
QuoteFamily ==
    {[id |-> "q1", text |-> quotes[1].text, author |-> a, source |-> s,
      year |-> y, tags |-> ts] :
        a \in {quotes[1].author}, s \in {<<>>, quotes[1].source},
        y \in {0, quotes[1].year}, ts \in TagLists}

\* A direct call of the composition functions on a quote.
InitCompose ==
    /\ program = "compose"
    /\ runs = 0
    /\ now = 1
    /\ NOSTR_PRIVATE_KEY = KeyHex
    /\ pc = "compose"
    /\ file = ZeroState
    /\ fileDoc = "state"
    /\ relays = <<>>
    /\ event = NoEvent
    /\ relayStore = EmptyStores
    /\ localStorage = ZeroState
    /\ storedDoc = "state"
    /\ InitLocals
    /\ procs = NoProcs
    /\ dpc = "idle"
    /\ dQuote = NoQuote
    /\ dEvent = NoTemplate
    /\ dOutcomes = <<>>
    /\ posts = 0
    /\ botState = ZeroState
    /\ selectedQuote \in QuoteFamily
    /\ InitCountdown

\* The intervals a configuration holds (getBotConfig merges the stored
\* configuration over the default of 8 hours; the README's example has 4).
Intervals == {0, 1, 4, DEFAULT_BOT_CONFIG.intervalHours}

\* A stored state whose last post was 5 seconds after the epoch of the clock.
PostedState ==
    [recentQuoteIds |-> <<"q1">>, lastPostTimestamp |-> 5000,
     totalPostsCount |-> 1]

\* The clock values followed, in milliseconds, around a last post and the
\* end of the interval after it (Date.now() counted from a near epoch; the
\* arithmetic of the two functions is exact for millisecond counts).
Instants(last, hoursOfInterval) ==
    {t \in {last + d : d \in {-1, 0, 1, 1000,
                               IntervalMs(hoursOfInterval) - 1000,
                               IntervalMs(hoursOfInterval) - 1,
                               IntervalMs(hoursOfInterval),
                               IntervalMs(hoursOfInterval) + 1,
                               2 * IntervalMs(hoursOfInterval)}} : t >= 0}

\* The schedule functions of lib/botService.ts called on a stored state, at
\* some clock value, with some interval.
InitSchedule ==
    /\ program = "schedule"
    /\ runs = 0
    /\ NOSTR_PRIVATE_KEY = KeyUnset
    /\ pc = "none"
    /\ file = ZeroState
    /\ fileDoc = "state"
    /\ relays = <<>>
    /\ event = NoEvent
    /\ relayStore = EmptyStores
    /\ localStorage \in {ZeroState, PostedState}
    /\ storedDoc \in {"absent", "unparsable", "state"}
    /\ storedDoc # "state" => localStorage = ZeroState
    /\ InitLocals
    /\ procs = NoProcs
    /\ dpc = "idle"
    /\ dQuote = NoQuote
    /\ dEvent = NoTemplate
    /\ dOutcomes = <<>>
    /\ posts = 0
    /\ botState = getBotState(storedDoc, localStorage)
    /\ selectedQuote = quotes[1]
    /\ intervalHours \in Intervals
    /\ countdown = [hours |-> 0, minutes |-> 0, seconds |-> 0,
                    canPostNow |-> TRUE]
    /\ due = FALSE
    /\ now \in Instants(localStorage.lastPostTimestamp, intervalHours)

\* Two runs of main() started on the same STATE_FILE (the scheduler and a
\* manual start, or a run that outlasts the interval), with the hex key and
\* one relay, on a fresh installation.
Runs == 1..2
InitOverlap ==
    /\ program = "overlap"
    /\ runs = 2
    /\ now = 1
    /\ NOSTR_PRIVATE_KEY = KeyHex
    /\ pc = "none"
    /\ file = ZeroState
    /\ fileDoc \in {"absent", "state"}
    /\ relays = RelayList(1)
    /\ event = NoEvent
    /\ relayStore \in {EmptyStores, PriorStores}
    /\ localStorage = ZeroState
    /\ storedDoc = "state"
    /\ InitLocals
    /\ InitDashIdle
    /\ procs = [p \in Runs |-> [pc |-> "load", state |-> ZeroState,
                                 quote |-> NoQuote]]

Init ==
    \/ InitBot \/ InitPublish \/ InitDashboard \/ InitParse \/ InitCompose
    \/ InitSchedule \/ InitOverlap


(***************************************************************************)
(* The bot run: main() of bot/index.ts.                                    *)
(***************************************************************************)
\* parsePrivateKey called on its own: it returns the key bytes or throws.
ParseKeyCall ==
    /\ program = "parse" /\ pc = "parse"
    /\ LET parsed == parsePrivateKey(NOSTR_PRIVATE_KEY) IN
       IF parsed.ok
       THEN secretKey' = parsed.bytes /\ thrown' = thrown /\ pc' = "returned"
       ELSE secretKey' = secretKey /\ thrown' = parsed.error /\ pc' = "threw"
    /\ UNCHANGED <<program, runs, now, NOSTR_PRIVATE_KEY, privateKeyStr,
                   pubkey, exitCode, file, fileDoc, state, relays, qi, quoteIds,
                   nostrQuoteIds, events, relayOpen, quote, event, pi, results,
                   relayStore, counters, dashVars, caught, latePublish>>

\* formatQuote, generateTags and finalizeEvent (main lines 694-712) and the
\* dashboard's template (mutationFn lines 18-38), called on a quote.
ComposeCall ==
    /\ program = "compose" /\ pc = "compose"
    /\ quote' = selectedQuote
    /\ event' = ComposeEvent(selectedQuote, BufferFromHex(NOSTR_PRIVATE_KEY), now)
    /\ dQuote' = selectedQuote
    /\ dEvent' = PostTemplate(selectedQuote, DEFAULT_BOT_CONFIG, TRUE)
    /\ pc' = "returned"
    /\ UNCHANGED <<sideVars, program, runs, now, NOSTR_PRIVATE_KEY, privateKeyStr,
                   secretKey, pubkey, exitCode, thrown, file, fileDoc, state,
                   relays, qi, quoteIds, nostrQuoteIds, events, relayOpen, pi, results,
                   relayStore, counters, caught, latePublish, localStorage, storedDoc, dpc,
                   dOutcomes, posts, botState, selectedQuote>>

\* Mutant of MainKeyError: the secret is checked for its length only.
MainKeyErrorLengthOnly(keyStr) ==
    LET parsed == parsePrivateKey(keyStr) IN
    IF ~parsed.ok THEN parsed.error
    ELSE IF Len(parsed.bytes) # 32 THEN ErrBadSecret
         ELSE ""

\* main lines 671-672: the error parsePrivateKey or getPublicKey throws for
\* the key, "" if none.
MainKeyError(keyStr) ==
    LET parsed == parsePrivateKey(keyStr) IN
    IF ~parsed.ok THEN parsed.error
    ELSE IF ~ValidSecret(parsed.bytes) THEN ErrBadSecret
         ELSE ""

\* main lines 657-669: the key main parses; an ephemeral key is generated
\* when none is configured.
EffectiveKey(keyStr) == IF keyStr = <<>> THEN KeyEphemeral ELSE keyStr

\* Mutant of ExitWithError: the error is logged, the exit code not set.
ExitWithErrorLogged(message) ==
    /\ thrown' = message
    /\ exitCode' = 0
    /\ pc' = "done"

\* main().catch at lines 736-739.
ExitWithError(message) ==
    /\ thrown' = message
    /\ exitCode' = 1
    /\ pc' = "done"

\* Lines 656-675.
MainKey ==
    /\ program = "bot" /\ pc = "start"
    /\ privateKeyStr' = NOSTR_PRIVATE_KEY
    /\ NOSTR_PRIVATE_KEY' = EffectiveKey(NOSTR_PRIVATE_KEY)
    /\ LET error == MainKeyError(NOSTR_PRIVATE_KEY') IN
       IF error # ""
       THEN /\ ExitWithError(error)
            /\ UNCHANGED <<secretKey, pubkey>>
       ELSE /\ secretKey' = parsePrivateKey(NOSTR_PRIVATE_KEY').bytes
            /\ pubkey' = getPublicKey(secretKey')
            /\ pc' = "load"
            /\ UNCHANGED <<thrown, exitCode>>
    /\ UNCHANGED <<program, runs, now, file, fileDoc, state, relays, qi, quoteIds,
                   nostrQuoteIds, events, relayOpen, quote, event, pi, results,
                   relayStore, counters, dashVars, caught, latePublish>>

\* Lines 677-687: loadState; relays is the list the environment configures
\* (RELAYS), the same for every run.
MainLoad ==
    /\ program = "bot" /\ pc = "load"
    /\ relays' = relays
    /\ qi' = 1
    /\ quoteIds' = <<>>
    /\ IF loadStateThrows(fileDoc)
       THEN ExitWithError(ErrJson) /\ state' = state
       ELSE IF fileDoc = "other"
            \* line 680: state.recentQuoteIds.length of a document without
            \* that field
            THEN ExitWithError(ErrTypeError) /\ state' = state
            ELSE /\ state' = loadState(fileDoc, file)
                 /\ pc' = "query"
                 /\ UNCHANGED <<exitCode, thrown>>
    /\ UNCHANGED <<program, runs, now, NOSTR_PRIVATE_KEY, privateKeyStr,
                   secretKey, pubkey, file, fileDoc, nostrQuoteIds, events,
                   relayOpen, quote, event, pi, results, relayStore, counters,
                   dashVars, caught, latePublish>>

Bump(f, url) == [f EXCEPT ![url] = @ + 1]

Reverse(s) == [i \in 1..Len(s) |-> s[Len(s) + 1 - i]]

\* Mutant of QueryConnectFail: the rejection leaves getRecentPostedQuoteIds
\* and ends the run.
QueryConnectFailAborts ==
    /\ program = "bot" /\ pc = "query" /\ qi <= Len(relays)
    /\ qContacts' = Bump(qContacts, relays[qi])
    /\ couldNotQuery' = couldNotQuery + 1
    /\ ExitWithError("connect failed")
    /\ UNCHANGED <<program, runs, now, NOSTR_PRIVATE_KEY, privateKeyStr,
                   secretKey, pubkey, file, fileDoc, state, relays, qi,
                   quoteIds, nostrQuoteIds, events, relayOpen, quote, event, pi,
                   results, relayStore, pContacts, submitted, saves,
                   dashVars, caught, latePublish>>

\* getRecentPostedQuoteIds, lines 412-416 and 472-474: Relay.connect rejects.
QueryConnectFail ==
    /\ program = "bot" /\ pc = "query" /\ qi <= Len(relays)
    /\ qContacts' = Bump(qContacts, relays[qi])
    /\ couldNotQuery' = couldNotQuery + 1
    /\ qi' = qi + 1
    /\ UNCHANGED <<program, runs, now, NOSTR_PRIVATE_KEY, privateKeyStr,
                   secretKey, pubkey, pc, exitCode, thrown, file, fileDoc, state,
                   relays, quoteIds, nostrQuoteIds, events, relayOpen, quote, event,
                   pi, results, relayStore, pContacts, submitted, saves,
                   dashVars, caught, latePublish>>

\* Line 416: await Relay.connect(url) has no timer of its own in this code;
\* with a relay that never answers the promise stays pending and the run
\* stays suspended here.
QueryConnectHangs ==
    /\ program = "bot" /\ pc = "query" /\ qi <= Len(relays)
    /\ qContacts' = Bump(qContacts, relays[qi])
    /\ pc' = "q_connecting"
    /\ UNCHANGED <<program, runs, now, NOSTR_PRIVATE_KEY, privateKeyStr,
                   secretKey, pubkey, exitCode, thrown, file, fileDoc, state,
                   relays, qi, quoteIds, nostrQuoteIds, events, relayOpen,
                   quote, event, pi, results, relayStore, pContacts,
                   submitted, saves, couldNotQuery, dashVars, caught,
                   latePublish>>

\* Lines 412-437: connected and subscribed.
QueryConnect ==
    /\ program = "bot" /\ pc = "query" /\ qi <= Len(relays)
    /\ qContacts' = Bump(qContacts, relays[qi])
    /\ relayOpen' = relays[qi]
    /\ events' = <<>>
    /\ pc' = "q_collect"
    /\ UNCHANGED <<program, runs, now, NOSTR_PRIVATE_KEY, privateKeyStr,
                   secretKey, pubkey, exitCode, thrown, file, fileDoc, state, relays,
                   qi, quoteIds, nostrQuoteIds, quote, event, pi, results,
                   relayStore, pContacts, submitted, saves, couldNotQuery,
                   dashVars, caught, latePublish>>

\* Lines 439-464: after the 3 s collection window the events received so
\* far (all the matching ones, newest first, or none from a silent relay)
\* give their quote ids.
QueryCollect ==
    /\ program = "bot" /\ pc = "q_collect"
    /\ events' \in {Reverse(Matching(relayStore[relayOpen], pubkey)), <<>>}
    /\ quoteIds' = quoteIds \o ExtractQuoteIds(events')
    /\ pc' = "q_close"
    /\ UNCHANGED <<program, runs, now, NOSTR_PRIVATE_KEY, privateKeyStr,
                   secretKey, pubkey, exitCode, thrown, file, fileDoc, state, relays,
                   qi, nostrQuoteIds, relayOpen, quote, event, pi, results,
                   relayStore, counters, dashVars, caught, latePublish>>

\* Mutant of QueryClose: the loop never breaks.
QueryCloseNoBreak ==
    /\ program = "bot" /\ pc = "q_close"
    /\ relayOpen' = 0
    /\ qi' = qi + 1
    /\ events' = <<>>
    /\ pc' = "query"
    /\ UNCHANGED <<program, runs, now, NOSTR_PRIVATE_KEY, privateKeyStr,
                   secretKey, pubkey, exitCode, thrown, file, fileDoc, state,
                   relays, quoteIds, nostrQuoteIds, quote, event, pi, results,
                   relayStore, counters, dashVars, caught, latePublish>>

\* Lines 466-480: break when ids were found, close the relay either way.
QueryClose ==
    /\ program = "bot" /\ pc = "q_close"
    /\ relayOpen' = 0
    /\ qi' = IF Len(quoteIds) > 0 THEN Len(relays) + 1 ELSE qi + 1
    /\ events' = <<>>
    /\ pc' = "query"
    /\ UNCHANGED <<program, runs, now, NOSTR_PRIVATE_KEY, privateKeyStr,
                   secretKey, pubkey, exitCode, thrown, file, fileDoc, state, relays,
                   quoteIds, nostrQuoteIds, quote, event, pi, results,
                   relayStore, counters, dashVars, caught, latePublish>>

\* getRecentPostedQuoteIds line 484, getRandomQuote lines 500-517 and main
\* lines 691-715: the quote is selected, composed and signed.
MainSelect ==
    /\ program = "bot" /\ pc = "query" /\ qi > Len(relays)
    /\ nostrQuoteIds' = Dedup(quoteIds)
    /\ quote' \in Selectable(BotRecentSet(state.recentQuoteIds, nostrQuoteIds'))
    /\ event' = ComposeEvent(quote', secretKey, now)
    /\ pi' = 1
    /\ results' = <<>>
    /\ pc' = "publish"
    /\ UNCHANGED <<program, runs, now, NOSTR_PRIVATE_KEY, privateKeyStr,
                   secretKey, pubkey, exitCode, thrown, file, fileDoc, state, relays,
                   qi, quoteIds, events, relayOpen, relayStore, counters,
                   dashVars, caught, latePublish>>

(***************************************************************************)
(* publishToRelays, bot/index.ts lines 599-648.                            *)
(***************************************************************************)
pubFrame == <<program, runs, now, NOSTR_PRIVATE_KEY, privateKeyStr, secretKey,
              pubkey, exitCode, thrown, file, fileDoc, state, relays, qi, quoteIds,
              nostrQuoteIds, events, quote, event, qContacts, saves, couldNotQuery,
              dashVars>>

InPublish == program \in {"bot", "publish"}

\* Mutant of PubConnectFail: the rejection ends the loop.
PubConnectFailEndsLoop ==
    /\ InPublish /\ pc = "publish" /\ pi <= Len(relays)
    /\ \E error \in ConnectThrown(program) :
          /\ caught' = error
          /\ results' = Append(results, CatchResult(relays[pi], error))
    /\ pContacts' = Bump(pContacts, relays[pi])
    /\ pi' = Len(relays) + 1
    /\ UNCHANGED <<pubFrame, pc, relayOpen, relayStore, submitted, latePublish>>

\* Lines 602-606 and 621-632: Relay.connect rejects; relay stays null.
PubConnectFail ==
    /\ InPublish /\ pc = "publish" /\ pi <= Len(relays)
    /\ \E error \in ConnectThrown(program) :
          /\ caught' = error
          /\ results' = Append(results, CatchResult(relays[pi], error))
    /\ pContacts' = Bump(pContacts, relays[pi])
    /\ pi' = pi + 1
    /\ UNCHANGED <<pubFrame, pc, relayOpen, relayStore, submitted, latePublish>>

\* Line 605: await Relay.connect(url), as at line 416: no timer in this code;
\* a relay that never answers keeps publishToRelays suspended.
PubConnectHangs ==
    /\ InPublish /\ pc = "publish" /\ pi <= Len(relays)
    /\ pContacts' = Bump(pContacts, relays[pi])
    /\ pc' = "p_connecting"
    /\ UNCHANGED <<pubFrame, pi, results, relayOpen, relayStore, submitted,
                   caught, latePublish>>

\* Lines 602-606: connected.
PubConnect ==
    /\ InPublish /\ pc = "publish" /\ pi <= Len(relays)
    /\ pContacts' = Bump(pContacts, relays[pi])
    /\ relayOpen' = relays[pi]
    /\ caught' = NoError
    /\ pc' = "p_race"
    /\ UNCHANGED <<pubFrame, pi, results, relayStore, submitted, latePublish>>

\* Lines 610-619: the relay confirms before the timeout.
PubResolve ==
    /\ InPublish /\ pc = "p_race"
    /\ submitted' = Bump(submitted, relayOpen)
    /\ relayStore' = [relayStore EXCEPT ![relayOpen] = Append(@, event)]
    /\ results' = Append(results, SuccessResult(relayOpen))
    /\ pc' = "p_close"
    /\ UNCHANGED <<pubFrame, pi, relayOpen, pContacts, caught, latePublish>>

\* Lines 610-615 and 621-632: the relay rejects the event before the timeout.
PubReject ==
    /\ InPublish /\ pc = "p_race"
    /\ submitted' = Bump(submitted, relayOpen)
    /\ \E error \in PublishThrown(program) :
          /\ caught' = error
          /\ results' = Append(results, CatchResult(relayOpen, error))
    /\ pc' = "p_close"
    /\ UNCHANGED <<pubFrame, pi, relayOpen, relayStore, pContacts, latePublish>>

\* Lines 611-615 and 621-632: the 10 s timer fires first. The relay may have
\* stored the event without its confirmation arriving in time.
PubTimeout ==
    /\ InPublish /\ pc = "p_race"
    /\ submitted' = Bump(submitted, relayOpen)
    /\ caught' = Err(MsgTimeout)
    /\ results' = Append(results, CatchResult(relayOpen, caught'))
    /\ \E stored \in BOOLEAN :
          relayStore' = IF stored
                        THEN [relayStore EXCEPT ![relayOpen] = Append(@, event)]
                        ELSE relayStore
    /\ latePublish' = "pending"
    /\ pc' = "p_close"
    /\ UNCHANGED <<pubFrame, pi, relayOpen, pContacts>>

\* Mutant of PubLateConfirm: the late confirmation rewrites the outcome.
PubLateConfirmRewrites ==
    /\ InPublish /\ pc = "p_close" /\ latePublish = "pending"
    /\ event \in Range(relayStore[relayOpen])
    /\ latePublish' = "resolved"
    /\ results' = [results EXCEPT ![Len(results)] = SuccessResult(relayOpen)]
    /\ UNCHANGED <<pubFrame, pc, pi, relayOpen, relayStore, pContacts,
                   submitted, caught>>

\* Lines 610-615 and 633-636: the confirmation of a relay that stored the
\* event arrives after the timer won the race, during the 500 ms pause:
\* publishPromise resolves, the race has settled and nothing awaits it.
PubLateConfirm ==
    /\ InPublish /\ pc = "p_close" /\ latePublish = "pending"
    /\ event \in Range(relayStore[relayOpen])
    /\ latePublish' = "resolved"
    /\ UNCHANGED <<pubFrame, pc, pi, relayOpen, results, relayStore,
                   pContacts, submitted, caught>>

\* Mutant of PubClose: the connection is closed only after a success.
PubCloseAfterSuccessOnly ==
    /\ InPublish /\ pc = "p_close"
    /\ relayOpen' = IF results[Len(results)].success THEN 0 ELSE relayOpen
    /\ latePublish' = "none"
    /\ pi' = pi + 1
    /\ pc' = "publish"
    /\ UNCHANGED <<pubFrame, results, relayStore, pContacts, submitted, caught>>

\* Lines 633-639: pause, close, next url.
PubClose ==
    /\ InPublish /\ pc = "p_close"
    /\ relayOpen' = 0
    /\ latePublish' = "none"
    /\ pi' = pi + 1
    /\ pc' = "publish"
    /\ UNCHANGED <<pubFrame, results, relayStore, pContacts, submitted, caught>>

\* Mutant of PublishFails: any failed relay fails the publish.
PublishFailsOnAnyFailure(rs) == successCount(rs) < Len(rs)

\* Line 645.
PublishFails(rs) == successCount(rs) = 0

\* Mutant of PubResult: the history is updated and saved before the
\* aggregate result is examined.
PubResultSavingFirst ==
    /\ InPublish /\ pc = "publish" /\ pi > Len(relays)
    /\ IF PublishFails(results)
       THEN IF program = "bot"
            THEN ExitWithError(ErrPublish)
            ELSE thrown' = ErrPublish /\ exitCode' = exitCode /\ pc' = "threw"
       ELSE /\ pc' = IF program = "bot" THEN "update" ELSE "returned"
            /\ UNCHANGED <<thrown, exitCode>>
    /\ IF program = "bot"
       THEN /\ state' = UpdatedState(state, quote.id, now)
            /\ file' = state'
            /\ fileDoc' = "state"
       ELSE UNCHANGED <<file, fileDoc, state>>
    /\ UNCHANGED <<program, runs, now, NOSTR_PRIVATE_KEY, privateKeyStr,
                   secretKey, pubkey, relays, qi, quoteIds,
                   nostrQuoteIds, events, relayOpen, quote, event, pi, results,
                   relayStore, counters, dashVars, caught, latePublish>>

\* Lines 642-647: the aggregate result. In a bot run a throw leaves main and
\* reaches main().catch (lines 736-739).
PubResult ==
    /\ InPublish /\ pc = "publish" /\ pi > Len(relays)
    /\ IF PublishFails(results)
       THEN IF program = "bot"
            THEN ExitWithError(ErrPublish)
            ELSE thrown' = ErrPublish /\ exitCode' = exitCode /\ pc' = "threw"
       ELSE /\ pc' = IF program = "bot" THEN "update" ELSE "returned"
            /\ UNCHANGED <<thrown, exitCode>>
    /\ UNCHANGED <<program, runs, now, NOSTR_PRIVATE_KEY, privateKeyStr,
                   secretKey, pubkey, file, fileDoc, state, relays, qi, quoteIds,
                   nostrQuoteIds, events, relayOpen, quote, event, pi, results,
                   relayStore, counters, dashVars, caught, latePublish>>

\* main lines 720-733: update and save the state; the process then ends
\* with exit code 0.
MainUpdate ==
    /\ program = "bot" /\ pc = "update"
    /\ state' = UpdatedState(state, quote.id, now)
    /\ file' = state'
    /\ fileDoc' = "state"
    /\ saves' = saves + 1
    /\ exitCode' = 0
    /\ pc' = "done"
    /\ UNCHANGED <<program, runs, now, NOSTR_PRIVATE_KEY, privateKeyStr,
                   secretKey, pubkey, thrown, relays, qi, quoteIds,
                   nostrQuoteIds, events, relayOpen, quote, event, pi, results,
                   relayStore, qContacts, pContacts, submitted, couldNotQuery,
                   dashVars, caught, latePublish>>

\* A new process starts with fresh locals.
ResetLocals ==
    /\ privateKeyStr' = NOSTR_PRIVATE_KEY'
    /\ secretKey' = <<>>
    /\ pubkey' = <<>>
    /\ exitCode' = -1
    /\ thrown' = ""
    /\ state' = ZeroState
    /\ qi' = 1
    /\ quoteIds' = <<>>
    /\ nostrQuoteIds' = <<>>
    /\ events' = <<>>
    /\ relayOpen' = 0
    /\ quote' = NoQuote
    /\ pi' = 1
    /\ results' = <<>>
    /\ caught' = NoError
    /\ latePublish' = "none"
    /\ qContacts' = NoContacts
    /\ pContacts' = NoContacts
    /\ submitted' = NoContacts
    /\ saves' = 0
    /\ couldNotQuery' = 0

\* The scheduler starts the next run: a new process with the same
\* environment (the key as configured, the relay list), the same state file
\* and relays. Chains of runs are followed from a fresh installation, and
\* for a number of runs that is smaller the more relays are configured (the
\* query and the publish of every run each walk the list).
NextRun ==
    /\ program = "bot" /\ pc = "done" /\ runs < MaxRuns
    /\ file.totalPostsCount <= runs
    /\ Len(relays) * Len(relays) * runs <= 2 * MaxRelays
    /\ runs' = runs + 1
    /\ now' = now + 1
    /\ NOSTR_PRIVATE_KEY' = privateKeyStr
    /\ pc' = "start"
    /\ relays' = relays
    /\ event' = NoEvent
    /\ ResetLocals
    /\ UNCHANGED <<program, file, fileDoc, relayStore, dashVars>>


(***************************************************************************)
(* The dashboard post action: usePostQuote.mutationFn.                     *)
(***************************************************************************)
botVars == <<runs, NOSTR_PRIVATE_KEY, privateKeyStr, secretKey, pubkey, pc,
             exitCode, thrown, file, fileDoc, state, relays, qi, quoteIds,
             nostrQuoteIds, events, relayOpen, quote, event, pi, results, relayStore,
             counters, caught, latePublish>>

\* createEvent (useNostrPublish): rejects when no relay took the event.
createEventRejects(outcomes) == \A i \in 1..Len(outcomes) : ~outcomes[i]

\* The quotes getRandomQuoteExcluding(recentIds) may return (lib/quotes.ts
\* lines 36-50, maxRecent left at its default).
getRandomQuoteExcluding(recentIds) ==
    Selectable(DashRecentSet(recentIds, DEFAULT_MAX_RECENT))

\* Index: handleRandomQuote (and the effect that picks the first quote); the
\* component renders again and reads the stored state.
DashRandomQuote ==
    /\ program = "dashboard" /\ dpc = "idle" /\ posts < MaxPosts
    /\ selectedQuote' \in getRandomQuoteExcluding(botState.recentQuoteIds)
    /\ selectedQuote' # selectedQuote
    /\ botState' = getBotState(storedDoc, localStorage)
    /\ UNCHANGED <<sideVars, program, now, botVars, localStorage, storedDoc, dpc, dQuote, dEvent,
                   dOutcomes, posts>>

\* Index: handleSelectQuote, the user picks a quote of the list.
DashSelectQuote ==
    /\ program = "dashboard" /\ dpc = "idle" /\ posts < MaxPosts
    /\ selectedQuote' \in Range(quotes)
    /\ selectedQuote' # selectedQuote
    /\ botState' = getBotState(storedDoc, localStorage)
    /\ UNCHANGED <<sideVars, program, now, botVars, localStorage, storedDoc, dpc, dQuote, dEvent,
                   dOutcomes, posts>>

\* handlePost and mutationFn lines 17-34: the selected quote is composed and
\* handed to createEvent.
DashPost ==
    /\ program = "dashboard" /\ dpc = "idle" /\ posts < MaxPosts
    /\ selectedQuote # NoQuote
    /\ dQuote' = selectedQuote
    /\ dEvent' = PostTemplate(selectedQuote, DEFAULT_BOT_CONFIG, TRUE)
    /\ dOutcomes' = <<>>
    /\ dpc' = "creating"
    /\ botState' = getBotState(storedDoc, localStorage)
    /\ UNCHANGED <<sideVars, program, now, botVars, localStorage, storedDoc, posts, selectedQuote>>

\* mutationFn lines 34-43: createEvent resolves and the quote is recorded;
\* then the onSuccess callback of handlePost picks the next quote with the
\* botState of the render that created it, and the component renders again.
DashCreateEventOk ==
    /\ program = "dashboard" /\ dpc = "creating"
    /\ \E outcomes \in [1..Len(relays) -> BOOLEAN] :
          /\ ~createEventRejects(outcomes)
          /\ dOutcomes' = outcomes
    /\ localStorage' = RecordedState(getBotState(storedDoc, localStorage), dQuote.id, now)
    /\ storedDoc' = "state"
    /\ selectedQuote' \in getRandomQuoteExcluding(botState.recentQuoteIds)
    /\ botState' = localStorage'
    /\ dpc' = "success"
    /\ UNCHANGED <<sideVars, program, now, botVars, dQuote, dEvent, posts>>

\* mutationFn line 34: createEvent rejects, the mutation fails (onError).
DashCreateEventFail ==
    /\ program = "dashboard" /\ dpc = "creating"
    /\ \E outcomes \in [1..Len(relays) -> BOOLEAN] :
          /\ createEventRejects(outcomes)
          /\ dOutcomes' = outcomes
    /\ dpc' = "error"
    /\ UNCHANGED <<sideVars, program, now, botVars, localStorage, storedDoc, dQuote, dEvent, posts,
                   botState, selectedQuote>>

\* The mutation has settled; the dashboard is ready for the next post.
DashSettled ==
    /\ program = "dashboard" /\ dpc \in {"success", "error"}
    /\ dpc' = "idle"
    /\ posts' = posts + 1
    /\ now' = now + 1
    /\ UNCHANGED <<sideVars, program, botVars, localStorage, storedDoc, dQuote, dEvent, dOutcomes,
                   botState, selectedQuote>>

(***************************************************************************)
(* The schedule functions of lib/botService.ts.                            *)
(***************************************************************************)
schedFrame == <<botVars, dQuote, dEvent, dOutcomes, botState, selectedQuote,
                intervalHours, procs>>

\* The clock advances to a later instant.
ScheduleTick ==
    /\ program = "schedule"
    /\ now' \in {t \in Instants(getBotState(storedDoc, localStorage)
                                    .lastPostTimestamp, intervalHours) :
                    t > now}
    /\ dpc' = "idle"
    /\ UNCHANGED <<schedFrame, program, localStorage, storedDoc, posts,
                   countdown, due>>

\* recordPostedQuote(quote.id), lines 80-89, at the present clock value.
ScheduleRecord ==
    /\ program = "schedule" /\ posts < MaxRecords
    /\ localStorage' = RecordedState(getBotState(storedDoc, localStorage),
                                      selectedQuote.id, now)
    /\ storedDoc' = "state"
    /\ posts' = posts + 1
    /\ dpc' = "idle"
    /\ UNCHANGED <<schedFrame, program, now, countdown, due>>

\* getTimeUntilNextPost(intervalHours) (the timer of Index lines 101-107)
\* and shouldPost(intervalHours), called at the same clock value.
ScheduleCall ==
    /\ program = "schedule" /\ dpc = "idle"
    /\ countdown' = getTimeUntilNextPost(getBotState(storedDoc, localStorage),
                                          now, intervalHours)
    /\ due' = shouldPost(getBotState(storedDoc, localStorage), now,
                          intervalHours)
    /\ dpc' = "timed"
    /\ UNCHANGED <<schedFrame, program, now, localStorage, storedDoc, posts>>

(***************************************************************************)
(* Two runs of main() of bot/index.ts on one state file. Each run is        *)
(* followed through the three steps that touch what the runs share: it     *)
(* loads the state, it selects and publishes, it updates and saves.        *)
(***************************************************************************)
overlapFrame == <<program, runs, now, NOSTR_PRIVATE_KEY, privateKeyStr,
                  secretKey, pubkey, pc, exitCode, thrown, state, relays, qi,
                  quoteIds, nostrQuoteIds, events, relayOpen, quote, event, pi,
                  results, qContacts, pContacts, submitted, couldNotQuery,
                  caught, latePublish, localStorage,
                  storedDoc, dpc, dQuote, dEvent, dOutcomes, posts, botState,
                  selectedQuote, schedVars>>

\* main line 678: loadState().
OverlapLoad ==
    /\ program = "overlap"
    /\ \E p \in Runs :
          /\ procs[p].pc = "load"
          /\ procs' = [procs EXCEPT ![p].pc = "publish",
                                    ![p].state = loadState(fileDoc, file)]
    /\ UNCHANGED <<overlapFrame, file, fileDoc, relayStore, saves>>

\* main lines 691-717: the relay is queried for the identity's posts, the
\* quote is selected and its event published; the relay accepts it.
OverlapPublish ==
    /\ program = "overlap"
    /\ \E p \in Runs :
          /\ procs[p].pc = "publish"
          /\ LET key == BufferFromHex(KeyHex)
                 ids == Dedup(ExtractQuoteIds(Reverse(
                           Matching(relayStore[relays[1]], getPublicKey(key)))))
             IN \E q \in Selectable(BotRecentSet(procs[p].state.recentQuoteIds,
                                                  ids)) :
                   /\ procs' = [procs EXCEPT ![p].pc = "update",
                                             ![p].quote = q]
                   /\ relayStore' =
                         [relayStore EXCEPT ![relays[1]] =
                             Append(@, ComposeEvent(q, key, now))]
    /\ UNCHANGED <<overlapFrame, file, fileDoc, saves>>

\* main lines 720-730: the run updates the state it loaded and saves it.
OverlapUpdate ==
    /\ program = "overlap"
    /\ \E p \in Runs :
          /\ procs[p].pc = "update"
          /\ file' = UpdatedState(procs[p].state, procs[p].quote.id, now)
          /\ fileDoc' = "state"
          /\ procs' = [procs EXCEPT ![p].pc = "done"]
    /\ saves' = saves + 1
    /\ UNCHANGED <<overlapFrame, relayStore>>

(***************************************************************************)
(* Specification.                                                          *)
(***************************************************************************)
Next ==
    \/ MainKey
    \/ MainLoad
    \/ QueryConnectFail
    \/ QueryConnectHangs
    \/ QueryConnect
    \/ QueryCollect
    \/ QueryClose
    \/ MainSelect
    \/ PubConnectFail
    \/ PubConnectHangs
    \/ PubConnect
    \/ PubResolve
    \/ PubReject
    \/ PubTimeout
    \/ PubLateConfirm
    \/ PubClose
    \/ PubResult
    \/ MainUpdate
    \/ NextRun
    \/ DashRandomQuote
    \/ DashSelectQuote
    \/ DashPost
    \/ DashCreateEventOk
    \/ DashCreateEventFail
    \/ DashSettled
    \/ ScheduleTick
    \/ ScheduleRecord
    \/ ScheduleCall
    \/ OverlapLoad
    \/ OverlapPublish
    \/ OverlapUpdate
    \/ ParseKeyCall
    \/ ComposeCall

Spec == Init /\ [][Next]_vars

\* Runs followed to their end: the bot with its hex key on a fresh
\* installation whose relays hold earlier posts, and one direct call of each
\* function.
LiveInit ==
    /\ Init
    /\ program = "bot" =>
          /\ NOSTR_PRIVATE_KEY = KeyHex
          /\ file = ZeroState /\ fileDoc = "state"
          /\ relayStore = PriorStores
    /\ program = "parse" => NOSTR_PRIVATE_KEY = KeyHex
    /\ program = "compose" => selectedQuote = quotes[1]

\* The steps of a run from its first suspension point on (the set-up of the
\* key before it is synchronous).
RunStep ==
    \/ MainLoad
    \/ QueryConnectFail
    \/ QueryConnect
    \/ QueryCollect
    \/ QueryClose
    \/ MainSelect
    \/ PubConnectFail
    \/ PubConnect
    \/ PubResolve
    \/ PubReject
    \/ PubTimeout
    \/ PubClose
    \/ PubResult
    \/ MainUpdate

\* The event loop runs every callback that is ready, and every timer the
\* code sets fires: a step of the run that can be taken is eventually taken.
LiveSpec == LiveInit /\ [][Next]_vars /\ WF_vars(RunStep)


(***************************************************************************)
(* Properties.                                                             *)
(***************************************************************************)
AllFailed(rs) == \A i \in 1..Len(rs) : ~rs[i].success
SomeSucceeded(rs) == \E i \in 1..Len(rs) : rs[i].success

\* publishToRelays has run to its end (returned or thrown).
PublishEnded ==
    /\ InPublish
    /\ pc \in {"threw", "returned", "update", "done"}
    /\ pi > Len(relays)

\* C1: publishToRelays throws the aggregate error if and only if no relay
\* was recorded as a success, for every relay list including the empty one;
\* otherwise it returns normally; no relay is contacted a second time.
C1_PublishFailsIffNoSuccess ==
    /\ PublishEnded =>
         /\ (thrown = ErrPublish) <=> AllFailed(results)
         /\ SomeSucceeded(results) => \/ pc \in {"returned", "update"}
                                      \/ (pc = "done" /\ exitCode = 0)
         /\ AllFailed(results) => \/ pc = "threw"
                                  \/ (pc = "done" /\ exitCode = 1)
    /\ \A r \in RelayUrls : pContacts[r] <= 1

\* Partial success: the first relay failed, the second succeeded, each was
\* contacted once and the call returned.
C1_Witness ==
    /\ program = "publish" /\ pc = "returned"
    /\ Len(results) = 2 /\ ~results[1].success /\ results[2].success
    /\ \A r \in Range(relays) : pContacts[r] = 1

\* C2: when publishing fails on every relay the error propagates and the
\* persisted history stays as it was before the run (nothing appended, no
\* counter or timestamp change, no save), in the bot and in the dashboard
\* post action alike.
C2_TotalFailureLeavesHistory ==
    [][ /\ (program = "bot" /\ pc = "publish" /\ pi > Len(relays)
              /\ AllFailed(results))
           => /\ pc' = "done" /\ thrown' = ErrPublish /\ exitCode' = 1
              /\ file' = file /\ file = state
              /\ saves = 0 /\ saves' = 0
        /\ (program = "bot" /\ thrown = ErrPublish) => file' = file
        /\ (program = "dashboard" /\ dpc = "creating" /\ dpc' # "creating"
              /\ AllFailed([i \in 1..Len(dOutcomes') |-> [success |-> dOutcomes'[i]]]))
           => dpc' = "error" /\ localStorage' = localStorage
      ]_vars

\* A bot run with two relays that both failed: the run ended with the
\* publish error and the state file still is the state loaded at its start.
C2_Witness ==
    /\ program = "bot" /\ pc = "done" /\ thrown = ErrPublish
    /\ Len(results) = 2 /\ AllFailed(results)
    /\ file = state /\ saves = 0

\* C3: when publishing succeeds on at least one relay the run appends the
\* selected quote's id as the last entry of recentQuoteIds, increases
\* totalPostsCount by exactly one, sets lastPostTimestamp, truncates to the
\* cap and saves exactly once; totalPostsCount never decreases.
C3_SuccessUpdatesHistory ==
    [][ /\ (program = "bot" /\ pc = "publish" /\ pi > Len(relays)
              /\ SomeSucceeded(results))
           => pc' = "update" /\ file' = file /\ saves' = 0
        /\ (program = "bot" /\ pc = "update")
           => /\ SomeSucceeded(results)
              /\ Len(file'.recentQuoteIds) >= 1
              /\ file'.recentQuoteIds[Len(file'.recentQuoteIds)] = quote.id
              /\ file'.totalPostsCount = file.totalPostsCount + 1
              /\ file'.lastPostTimestamp = now
              /\ Len(file'.recentQuoteIds) <= CAP
              /\ saves = 0 /\ saves' = 1
              /\ pc' = "done"
        /\ file'.totalPostsCount >= file.totalPostsCount
        /\ file' # file => saves' = saves + 1
      ]_vars

\* The second of two successful runs ended after a partial success.
C3_Witness ==
    /\ program = "bot" /\ pc = "done" /\ runs = 2 /\ saves = 1
    /\ SomeSucceeded(results) /\ ~AllFailed(results) /\ \E i \in 1..Len(results) : ~results[i].success
    /\ file.totalPostsCount = 2
    /\ file.recentQuoteIds[Len(file.recentQuoteIds)] = quote.id

\* C4: after every save of a bot run, from any loaded state, the persisted
\* recentQuoteIds has at most CAP entries, and when the appended list was
\* longer than CAP the entries kept are its last CAP ones in their order.
C4_SavedHistoryCapped ==
    [][ saves' = saves + 1 =>
          LET appended == Append(file.recentQuoteIds, quote.id)
              kept == file'.recentQuoteIds
          IN /\ Len(kept) <= CAP
             /\ Len(appended) > CAP =>
                  /\ Len(kept) = CAP
                  /\ \A i \in 1..CAP : kept[i] = appended[Len(appended) - CAP + i]
      ]_vars

\* A run that loaded 103 entries has saved: CAP entries are left.
C4_Witness ==
    /\ program = "bot" /\ saves = 1
    /\ file.totalPostsCount = 104
    /\ Len(file.recentQuoteIds) = CAP
    /\ file.recentQuoteIds[CAP] = quote.id

\* A selection respects an exclusion set: the quote is of the dataset, and
\* its id is excluded only when every quote of the dataset is.
RespectsExclusion(q, excluded) ==
    /\ \E i \in 1..Len(quotes) : quotes[i] = q
    /\ q.id \in excluded => \A i \in 1..Len(quotes) : quotes[i].id \in excluded

\* C5: quote selection returns a quote of the dataset whose id is in the
\* exclusion set only when the exclusion set covers the whole dataset
\* (getRandomQuote of the bot and getRandomQuoteExcluding of the dashboard).
C5_SelectionRespectsExclusion ==
    /\ [](program = "bot" /\ pc \in {"publish", "p_race", "p_close", "update"}
            => RespectsExclusion(quote,
                   BotRecentSet(state.recentQuoteIds, nostrQuoteIds)))
    /\ [][ (DashRandomQuote \/ DashCreateEventOk)
            => RespectsExclusion(selectedQuote',
                   DashRecentSet(botState.recentQuoteIds, DEFAULT_MAX_RECENT))
         ]_vars

\* Exhaustion: every quote is excluded and one of them was selected.
C5_Witness ==
    /\ program = "bot" /\ pc = "publish"
    /\ quote.id \in BotRecentSet(state.recentQuoteIds, nostrQuoteIds)
    /\ QuoteIds \subseteq BotRecentSet(state.recentQuoteIds, nostrQuoteIds)
    /\ nostrQuoteIds # <<>>

\* The message has the letters d,u,p,l,i,c,a,t,e in a row, each in either case.
ContainsDuplicateAnyCase(m) ==
    \E i \in 1..(Len(m) - 8) :
        \A j \in 1..9 :
            \E k \in 1..26 : /\ LowerChars[k] = NeedleDuplicate[j]
                             /\ m[i + j - 1] \in {LowerChars[k], UpperChars[k]}

\* C6: an error caught while publishing to a relay whose message contains
\* "duplicate" in any letter case is recorded as a success of that relay
\* and counts toward the success total.
C6_DuplicateIsSuccess ==
    (InPublish /\ caught.isError /\ ContainsDuplicateAnyCase(caught.message))
    => /\ Len(results) >= 1
       /\ results[Len(results)].success
       /\ PublishEnded => thrown # ErrPublish

\* A call with one relay whose only outcome is an upper-case duplicate
\* error returned normally.
C6_Witness ==
    /\ program = "publish" /\ pc = "returned"
    /\ caught = Err(MsgDupUpper)
    /\ Len(results) = 1 /\ results[1].success
    /\ relayStore = EmptyStores

\* C7: the process exits with code 0 whenever at least one relay succeeded
\* and with a non-zero code on total publish failure or any unhandled error.
C7_ExitCode ==
    (program = "bot" /\ pc = "done") =>
        /\ exitCode \in {0, 1}
        /\ SomeSucceeded(results) => exitCode = 0
        /\ (pi > Len(relays) /\ AllFailed(results)) => exitCode # 0
        /\ thrown # "" => exitCode # 0

\* A run whose first relay failed and whose second succeeded exited with 0.
C7_Witness ==
    /\ program = "bot" /\ pc = "done" /\ exitCode = 0 /\ runs = 1
    /\ Len(results) = 2 /\ ~results[1].success /\ results[2].success

\* A usable private key: one of the two accepted forms, holding a secret
\* the signature scheme accepts.
ValidPrivateKey(k) ==
    LET t == trim(k) IN
    \/ IsHex64(t) /\ ValidSecret(BufferFromHex(t))
    \/ IsEncodedSecret(t) /\ ValidSecret(nip19Decode(t).data)

\* The configured keys of the bot runs that are not usable.
InvalidConfiguredKeys == {k \in BotKeys : k # KeyUnset /\ ~ValidPrivateKey(k)}

\* C8: with an invalid private key the run aborts before any network
\* activity: no relay connection, no history query, no event published, no
\* write of the state file.
C8_InvalidKeyAbortsPreflight ==
    (program = "bot" /\ privateKeyStr \in InvalidConfiguredKeys)
    => /\ pc \in {"start", "done"}
       /\ pc = "done" => exitCode = 1 /\ thrown # ""
       /\ relayOpen = 0
       /\ \A r \in RelayUrls :
             qContacts[r] = 0 /\ pContacts[r] = 0 /\ submitted[r] = 0
       /\ saves = 0
       /\ file \in InitFiles
       /\ relayStore \in InitStores

\* A run with a key of 64 characters that are not hex digits has ended
\* with an error and without contacting a relay.
C8_Witness ==
    /\ program = "bot" /\ pc = "done" /\ privateKeyStr = KeyNonHex
    /\ exitCode = 1
    /\ \A r \in RelayUrls : qContacts[r] = 0 /\ pContacts[r] = 0
    /\ saves = 0

\* C9: parsePrivateKey fails for every key that is neither 64 hex
\* characters nor a recognized encoded secret key, and succeeds only for
\* these two forms.
C9_ParseAcceptsOnlyValidForms ==
    (program = "parse" /\ pc # "parse")
    => (pc = "returned" <=> AcceptedKeyForm(NOSTR_PRIVATE_KEY))

\* C10: a run started with no private key configured publishes no event
\* to any relay.
C10_NoKeyNoPublish ==
    (program = "bot" /\ privateKeyStr = KeyUnset)
    => \A r \in RelayUrls : submitted[r] = 0

HasTag(tags, name, value) ==
    \E i \in 1..Len(tags) : tags[i][1] = name /\ tags[i][2] = value

\* C12: every kind-1 event published for a quote, by the bot or by the
\* dashboard post action, carries a quote_id tag with the quote's id and
\* the fixed client tag.
C12_PublishedEventsCarryQuoteId ==
    /\ (program = "bot" /\ event # NoEvent)
       => /\ event.kind = 1
          /\ HasTag(event.tags, "quote_id", quote.id)
          /\ HasTag(event.tags, "client", "Cypherpunk Quotes Bot")
    /\ (program = "dashboard" /\ dpc \in {"creating", "success"})
       => /\ dEvent.kind = 1
          /\ HasTag(dEvent.tags, "quote_id", dQuote.id)
          /\ HasTag(dEvent.tags, "client", "Cypherpunk Quotes Bot")

\* The normal form of a hashtag, stated position by position: the
\* characters of x that are neither white space nor a hyphen, in their
\* order, each in lower case.
Normalized(x) ==
    LET keep == {i \in 1..Len(x) : x[i] \notin {" ", "\t", "\n", "-"}}
        nth(k) == CHOOSE i \in keep : Cardinality({j \in keep : j <= i}) = k
    IN [k \in 1..Cardinality(keep) |-> ToLowerChar(x[nth(k)])]

\* C13: in quote-only mode the tag list is, in this order, one
\* ["t", normalize(tag)] per quote tag in the quote's order, then
\* ["t", normalize(author)], then ["quote_id", quote.id], then
\* ["client", "Cypherpunk Quotes Bot"], and nothing else.
C13_TagListOrder ==
    (program \in {"bot", "compose"} /\ event # NoEvent) =>
        LET n == Len(quote.tags) IN
        /\ Len(event.tags) = n + 3
        /\ \A i \in 1..n : event.tags[i] = <<"t", Normalized(quote.tags[i])>>
        /\ event.tags[n + 1] = <<"t", Normalized(quote.author)>>
        /\ event.tags[n + 2] = <<"quote_id", quote.id>>
        /\ event.tags[n + 3] = <<"client", "Cypherpunk Quotes Bot">>

\* A quote with the tags "B-a", "ba" and "B a" was composed.
C13_Witness ==
    /\ program = "compose" /\ pc = "returned"
    /\ quote.tags = << <<"B","-","a">>, <<"b","a">>, <<"B"," ","a">> >>
    /\ event.tags = << <<"t", <<"b","a">> >>, <<"t", <<"b","a">> >>,
                       <<"t", <<"b","a">> >>,
                       <<"t", <<"e","r","i","c","h","u","g","h","e","s">> >>,
                       <<"quote_id", "q1">>,
                       <<"client", "Cypherpunk Quotes Bot">> >>

\* The text before the hashtags: the quote in double quotes, two newlines,
\* an em-dash and the author, and the suffix the present fields call for.
Attribution(q) ==
    <<"\"">> \o q.text \o <<"\"", "\n", "\n", EmDash, " ">> \o q.author
    \o (CASE q.source # <<>> /\ q.year # 0 ->
                <<" ", "(">> \o q.source \o <<",", " ">> \o NatToChars(q.year) \o <<")">>
          [] q.source # <<>> /\ q.year = 0 -> <<" ", "(">> \o q.source \o <<")">>
          [] q.source = <<>> /\ q.year # 0 -> <<" ", "(">> \o NatToChars(q.year) \o <<")">>
          [] OTHER -> <<>>)

\* The hashtag line of the first n tags: '#' and the normal form of each,
\* separated by single spaces.
RECURSIVE HashLine(_, _)
HashLine(ts, n) ==
    IF n = 0 THEN <<>>
    ELSE HashLine(ts, n - 1) \o (IF n > 1 THEN <<" ">> ELSE <<>>)
         \o <<"#">> \o Normalized(ts[n])

\* C14 (as amended): in quote-only mode the content is the quoted text, two
\* newlines, an em-dash and the author, the suffix ' (source, year)',
\* ' (source)', ' (year)' or nothing, followed, for a quote that has at
\* least one tag, by two newlines and the hashtag line; for a quote without
\* tags the content ends with the attribution.
C14_ContentWhenTagged ==
    (program \in {"bot", "compose"} /\ event # NoEvent) =>
        event.content =
            Attribution(quote)
            \o (IF quote.tags = <<>> THEN <<>>
                ELSE <<"\n", "\n">> \o HashLine(quote.tags, Len(quote.tags)))

\* A quote with a source, without a year and without tags was composed: the
\* content ends after the source.
C14_Witness ==
    /\ program = "compose" /\ pc = "returned"
    /\ quote.tags = <<>> /\ quote.source # <<>> /\ quote.year = 0
    /\ event.content = <<"\"">> \o quote.text \o <<"\"", "\n", "\n", EmDash, " ">>
                       \o quote.author \o <<" ", "(">> \o quote.source \o <<")">>

\* C14 (as stated): the two newlines and the hashtag line follow for every
\* quote.
C14_ContentForEveryQuote ==
    (program \in {"bot", "compose"} /\ event # NoEvent) =>
        event.content =
            Attribution(quote) \o <<"\n", "\n">>
            \o HashLine(quote.tags, Len(quote.tags))

\* The same words spelled with spaces in the place of hyphens.
SpacedSpelling(x) == [i \in 1..Len(x) |-> IF x[i] = "-" THEN " " ELSE x[i]]

\* C15: hashtag normalization is idempotent, and maps the hyphenated and
\* the space-separated spelling of the same words to the same token, such
\* as 'open-source' and 'open source' to 'opensource'.
C15_NormalizeIdempotent ==
    /\ (program = "compose" /\ pc = "returned") =>
          \A i \in 1..Len(quote.tags) :
              LET x == quote.tags[i]
                  once == event.tags[i][2]
              IN /\ once = normalizeHashtag(x)
                 /\ normalizeHashtag(once) = once
                 /\ normalizeHashtag(SpacedSpelling(x)) = once
    /\ normalizeHashtag(<<"o","p","e","n","-","s","o","u","r","c","e">>)
          = <<"o","p","e","n","s","o","u","r","c","e">>
    /\ normalizeHashtag(<<"o","p","e","n"," ","s","o","u","r","c","e">>)
          = <<"o","p","e","n","s","o","u","r","c","e">>

\* The tag "a-B" was normalized to "ab", which normalizes to itself.
C15_Witness ==
    /\ program = "compose" /\ pc = "returned"
    /\ quote.tags = << <<"a","-","B">> >>
    /\ event.tags[1] = <<"t", <<"a","b">> >>
    /\ normalizeHashtag(event.tags[1][2]) = <<"a","b">>

\* The ids of the state file followed by the ids found on the network.
Combined == state.recentQuoteIds \o quoteIds

\* The CAP last entries of the union: the ids whose first occurrence in the
\* combined list is followed by the first occurrences of fewer than CAP
\* other ids.
LastOfUnion ==
    LET firsts == {i \in 1..Len(Combined) :
                      \A j \in 1..(i - 1) : Combined[j] # Combined[i]}
    IN {Combined[i] : i \in {k \in firsts :
                                Cardinality({j \in firsts : j > k}) < CAP}}

LocalOnlySet == Range(SliceLast(state.recentQuoteIds, CAP))

\* Every configured relay failed in the history query of this run.
EveryQueryFailed ==
    /\ program = "bot" /\ Len(relays) > 0
    /\ couldNotQuery = Len(relays)

\* C17: a relay that fails during the history query never aborts selection:
\* the step that logs the failure leaves the run alive, keeps the ids found
\* so far and moves to the next relay; when every relay has failed, no id
\* came from the network, and the quote the run goes on to publish is chosen
\* against the local recentQuoteIds alone and signed.
C17_QueryFailureNotFatal ==
    /\ [][ (program = "bot" /\ couldNotQuery' = couldNotQuery + 1) =>
             /\ pc' = "query" /\ qi' = qi + 1
             /\ exitCode' = -1 /\ thrown' = ""
             /\ quoteIds' = quoteIds ]_vars
    /\ [] ( (EveryQueryFailed /\ pc = "query" /\ qi > Len(relays)) =>
              quoteIds = <<>> )
    /\ [] ( (EveryQueryFailed /\ pc = "publish") =>
              /\ exitCode = -1
              /\ quote \in Selectable(LocalOnlySet)
              /\ event = ComposeEvent(quote, secretKey, now) )

\* Both relays failed in the query, a quote already in the local list was
\* kept out, and the event went out to a relay.
C17_Witness ==
    /\ EveryQueryFailed /\ Len(relays) = 2
    /\ pc = "update"
    /\ state.recentQuoteIds # <<>>
    /\ quote.id \notin LocalOnlySet
    /\ SomeSucceeded(results)
    /\ exitCode = -1

\* A step of the history query that contacts a relay contacts relays[qi],
\* after every relay before it in the list and before every relay after it.
ContactsInListOrder ==
    (program = "bot" /\ pc = "query" /\ qContacts' # qContacts) =>
        /\ qi <= Len(relays)
        /\ qContacts' = Bump(qContacts, relays[qi])
        /\ \A j \in 1..Len(relays) :
              qContacts[relays[j]] = IF j < qi THEN 1 ELSE 0

\* C18 (amended): the history query contacts the configured relays in list
\* order and stops as soon as the posts of a relay have given a quote id: no
\* relay after the first one that returned a post carrying a quote_id tag is
\* contacted.
C18_StopsAtFirstQuoteIds ==
    /\ [][ContactsInListOrder]_vars
    /\ [][ (program = "bot" /\ pc = "q_close" /\ quoteIds # <<>>) =>
             qi' > Len(relays) ]_vars
    /\ [] ( (program = "bot" /\ pc = "query" /\ quoteIds # <<>>) =>
              qi > Len(relays) )

\* The first of two relays returned the bot's post of the first quote; the
\* query has ended without contacting the second.
C18_Witness ==
    /\ program = "bot" /\ pc = "query"
    /\ Len(relays) = 2
    /\ quoteIds = <<"q1">>
    /\ qi > Len(relays)
    /\ qContacts[relays[1]] = 1 /\ qContacts[relays[2]] = 0

\* C18 as stated: the query contacts the relays in list order and stops as
\* soon as a relay has returned posts of the identity.
C18_StopsAtFirstPosts ==
    /\ [][ContactsInListOrder]_vars
    /\ [][ (program = "bot" /\ pc = "q_close" /\ events # <<>>) =>
             qi' > Len(relays) ]_vars

\* The quote ids carried by the posts of the bot's identity a relay holds.
HeldQuoteIds(r) == Range(ExtractQuoteIds(Matching(relayStore[r], pubkey)))

\* The run has just selected its quote; nothing was published yet, so the
\* relays hold what they held when the run started.
JustSelected ==
    /\ program = "bot" /\ pc = "publish"
    /\ pi = 1 /\ results = <<>> /\ relayOpen = 0

\* C19: when a run starts from the zero state and a configured relay holds a
\* prior post of the bot carrying a quote_id tag, that id is in the exclusion
\* set of the run and its quote is not the one selected, unless every quote
\* is excluded.
C19_NetworkRecordExcludes ==
    (JustSelected /\ state = ZeroState) =>
        \A j \in 1..Len(relays) : \A x \in HeldQuoteIds(relays[j]) :
            /\ x \in BotRecentSet(state.recentQuoteIds, nostrQuoteIds)
            /\ \/ quote.id # x
               \/ \A k \in 1..Len(quotes) :
                     quotes[k].id \in
                        BotRecentSet(state.recentQuoteIds, nostrQuoteIds)

\* No relay failed or stayed silent: the first relay delivered its post of
\* the first quote, the query stopped there, and the quote of the second
\* relay's post was selected again.
C19_EarlyStopMissesSecondRelay ==
    /\ JustSelected /\ state = ZeroState
    /\ Len(relays) = 2 /\ couldNotQuery = 0
    /\ quoteIds = <<"q1">>
    /\ qContacts[relays[2]] = 0
    /\ "q2" \in HeldQuoteIds(relays[2])
    /\ quote.id = "q2"

\* C20: when opening the connection to a relay fails during publishing, the
\* outcome recorded for that relay is a failure carrying the message of the
\* error Relay.connect rejected with, and publishing goes on with the next
\* url.
C20_ConnectFailureRecorded ==
    [][ (InPublish /\ pc = "publish" /\ pc' = "publish"
         /\ pContacts' # pContacts) =>
          /\ results' = Append(results, [relay |-> relays[pi],
                                         success |-> FALSE,
                                         error |-> caught'.message])
          /\ pi' = pi + 1 ]_vars

\* Relay.connect rejected with a string, as a WebSocket error handler does:
\* the entry recorded carries 'Unknown error'.
C20_StringRejectionLosesMessage ==
    /\ program = "publish" /\ pc = "publish"
    /\ pi = 2 /\ Len(results) = 1
    /\ caught = NonErr(MsgWsError)
    /\ ~results[1].success
    /\ results[1].error = MsgUnknown

\* The entry recorded for a relay whose confirmation did not come in time.
TimeoutResult(url) == [relay |-> url, success |-> FALSE, error |-> MsgTimeout]

\* C21: each submission is raced against the 10 s timer and the first to
\* settle decides: the race ends with exactly one outcome recorded for the
\* relay; when the timer wins, that outcome is a failure with the message
\* 'Timeout waiting for relay confirmation', and a confirmation that arrives
\* afterwards changes nothing of what was recorded.
C21_TimeoutRaceDecidesOnce ==
    /\ [][ (InPublish /\ pc = "p_race" /\ pc' # "p_race") =>
             /\ Len(results') = Len(results) + 1
             /\ SubSeq(results', 1, Len(results)) = results
             /\ results'[Len(results')].relay = relayOpen
             /\ latePublish' = "pending" =>
                   results'[Len(results')] = TimeoutResult(relayOpen) ]_vars
    /\ [][ (latePublish = "pending" /\ latePublish' = "resolved") =>
             /\ results' = results
             /\ pc' = pc /\ pi' = pi ]_vars
    /\ [] ( (InPublish /\ pc = "p_close" /\ latePublish # "none") =>
              results[Len(results)] = TimeoutResult(relayOpen) )

\* The timer won, the relay had stored the event and its confirmation has
\* arrived during the pause: the outcome recorded is still the timeout.
C21_Witness ==
    /\ InPublish /\ pc = "p_close"
    /\ latePublish = "resolved"
    /\ event \in Range(relayStore[relayOpen])
    /\ results[Len(results)] = TimeoutResult(relayOpen)

\* The run (or the direct call of publishToRelays) has come to its end.
RunEnded == pc \in {"done", "returned", "threw"}

\* C22: every suspension point carries a timeout, so a run always
\* terminates, with success or with an error, whatever the relays do.
C22_RunAlwaysTerminates ==
    (InPublish /\ pc \in {"load", "publish"}) ~> RunEnded

\* C23: in publishing and in the history query every connection that was
\* opened is closed on every exit path before the next relay is contacted:
\* a connection is open only between its connect and the close that follows
\* the pause, no connection is open when a relay is contacted, and none is
\* open when the run has ended.
C23_ConnectionsClosed ==
    /\ [][ (InPublish /\ pc \in {"query", "publish"}
            /\ (qContacts' # qContacts \/ pContacts' # pContacts)) =>
             relayOpen = 0 ]_vars
    /\ [][ (relayOpen # 0 /\ pc' \notin {"q_collect", "q_close",
                                        "p_race", "p_close"}) =>
             /\ pc \in {"q_close", "p_close"}
             /\ relayOpen' = 0 ]_vars
    /\ [] (relayOpen # 0 =>
              pc \in {"q_collect", "q_close", "p_race", "p_close"})
    /\ [] (RunEnded => relayOpen = 0)

\* The run has ended: the query broke off early at its first relay, the
\* first relay of the publish timed out, the second confirmed, and nothing
\* is open.
C23_Witness ==
    /\ program = "bot" /\ pc = "done" /\ relayOpen = 0
    /\ quoteIds # <<>> /\ qContacts[relays[1]] = 1
    /\ Len(results) = 2
    /\ results[1] = TimeoutResult(relays[1])
    /\ results[2].success

\* A step of publishToRelays that contacts a relay contacts relays[pi], after
\* every relay before it in the list had its one attempt and its outcome
\* recorded, and before any relay after it.
PublishesInListOrder ==
    (InPublish /\ pc = "publish" /\ pContacts' # pContacts) =>
        /\ pi <= Len(relays)
        /\ pContacts' = Bump(pContacts, relays[pi])
        /\ Len(results) = pi - 1
        /\ \A j \in 1..Len(relays) :
              pContacts[relays[j]] = IF j < pi THEN 1 ELSE 0

\* C24: publishToRelays attempts every configured relay exactly once, in
\* list order, whatever happened at the earlier relays; it records exactly
\* one outcome per relay in the same order; an error caught at a relay never
\* leaves the loop, and the only error the call throws is the aggregate one.
C24_EveryRelayOnceInOrder ==
    /\ [][PublishesInListOrder]_vars
    /\ [][ (InPublish /\ caught' # caught /\ caught'.message # <<>>) =>
             /\ thrown' = thrown
             /\ pc' \in {"publish", "p_close"} ]_vars
    /\ [] ( (InPublish /\ pc \in {"publish", "p_race", "p_close"}) =>
              \A i \in 1..Len(results) : results[i].relay = relays[i] )
    /\ [] ( PublishEnded =>
              /\ Len(results) = Len(relays)
              /\ \A i \in 1..Len(relays) :
                    /\ results[i].relay = relays[i]
                    /\ pContacts[relays[i]] = 1
              /\ thrown \in {"", ErrPublish} )

\* Both relays failed, each in its own way; both outcomes are recorded in
\* list order and the call threw the aggregate error.
C24_Witness ==
    /\ program = "publish" /\ pc = "threw" /\ thrown = ErrPublish
    /\ Len(relays) = 2 /\ Len(results) = 2
    /\ results[1].relay = relays[1] /\ results[2].relay = relays[2]
    /\ results[1].error = MsgConnRefused
    /\ results[2] = TimeoutResult(relays[2])

\* The hashtags of the display line: the configured ones in their order,
\* then those of the quote's first three tags that are neither configured
\* nor a repetition of an earlier one.
DisplayTags(q, config) ==
    LET first3 == [i \in 1..(IF Len(q.tags) < 3 THEN Len(q.tags) ELSE 3)
                     |-> q.tags[i]]
        keep == {i \in 1..Len(first3) :
                    /\ \A j \in 1..Len(config.hashtags) :
                          config.hashtags[j] # first3[i]
                    /\ \A j \in 1..(i - 1) : first3[j] # first3[i]}
        nth(k) == CHOOSE i \in keep : Cardinality({j \in keep : j <= i}) = k
    IN config.hashtags \o [k \in 1..Cardinality(keep) |-> first3[nth(k)]]

\* '#' and the tag as it is, for the first n tags, separated by spaces.
RECURSIVE RawHashLine(_, _)
RawHashLine(ts, n) ==
    IF n = 0 THEN <<>>
    ELSE RawHashLine(ts, n - 1) \o (IF n > 1 THEN <<" ">> ELSE <<>>)
         \o <<"#">> \o ts[n]

\* C25: in the dashboard the hashtag line is made of the configured hashtags
\* in their order followed by those of the quote's first three tags not
\* already listed, each once; the preview of a quote and the content posted
\* for it are the same string.
C25_DisplayLineAndPreview ==
    (program \in {"dashboard", "compose"} /\ dEvent # NoTemplate) =>
        LET preview == formatQuoteWithHashtags(dQuote, DEFAULT_BOT_CONFIG)
            tags == DisplayTags(dQuote, DEFAULT_BOT_CONFIG)
        IN /\ dEvent.content = preview
           /\ preview = formatQuoteForNostr(dQuote) \o <<"\n", "\n">>
                        \o RawHashLine(tags, Len(tags))

\* A quote with five tags, the second one configured, the third a
\* repetition of the first: the line has the four configured hashtags and
\* one more.
C25_Witness ==
    /\ program = "compose" /\ dEvent # NoTemplate
    /\ Len(dQuote.tags) = 5
    /\ DisplayTags(dQuote, DEFAULT_BOT_CONFIG) =
          DEFAULT_BOT_CONFIG.hashtags \o << <<"a">> >>
    /\ dEvent.content = formatQuoteWithHashtags(dQuote, DEFAULT_BOT_CONFIG)

\* The id recorded last in the local history the run loaded.
LastRecorded == state.recentQuoteIds[Len(state.recentQuoteIds)]

\* C26: the quote recorded last in the local recentQuoteIds is never the one
\* the next run selects, whatever the network query returned, unless every
\* quote of the dataset is excluded.
C26_LastPostedNotRepeated ==
    (JustSelected /\ state.recentQuoteIds # <<>>) =>
        \/ quote.id # LastRecorded
        \/ \A k \in 1..Len(quotes) :
              quotes[k].id \in
                 BotRecentSet(state.recentQuoteIds, nostrQuoteIds)

\* The local history ends with the first quote's id, the first relay gave
\* two ids that were not on record, and the first quote was selected again
\* although it is not excluded.
C26_RepeatAfterNetworkIds ==
    /\ JustSelected /\ state = RepeatFile
    /\ LastRecorded = "q1" /\ quote.id = "q1"
    /\ nostrQuoteIds = <<"q3", "q2">>
    /\ "q1" \notin BotRecentSet(state.recentQuoteIds, nostrQuoteIds)

\* C27: whenever some relay accepted the event of a run, the acceptance that
\* arrives after the 10 s timer included, the run ends as a success and the
\* quote's id is the last one of the persisted history; a run that left the
\* history unchanged left its event on no relay.
C27_AcceptedMeansRecorded ==
    (program = "bot" /\ pc = "done" /\ event # NoEvent) =>
        ((\E r \in RelayUrls : event \in Range(relayStore[r])) =>
            /\ exitCode = 0
            /\ file.recentQuoteIds # <<>>
            /\ file.recentQuoteIds[Len(file.recentQuoteIds)] = quote.id)

\* Every relay's outcome is the timeout, the first relay was empty and now
\* holds the event, and the run has ended with exit code 1 and the state
\* file as it was loaded.
C27_StoredAfterTimeoutRunFailed ==
    /\ program = "bot" /\ pc = "done" /\ exitCode = 1 /\ thrown = ErrPublish
    /\ \A i \in 1..Len(results) : results[i] = TimeoutResult(relays[i])
    /\ relayStore[relays[1]] = <<event>>
    /\ saves = 0 /\ file = state
    /\ \A i \in 1..Len(file.recentQuoteIds) : file.recentQuoteIds[i] # quote.id

\* C28: after a successful manual post from the dashboard, the replacement
\* quote that the success callback selects is never the quote that was just
\* posted: the selection already sees the id recordPostedQuote stored.
C28_ReplacementIsAnotherQuote ==
    (program = "dashboard" /\ dpc = "success") => selectedQuote # dQuote

\* The post succeeded, its id is the last one stored and the stored history
\* leaves other quotes free, yet the callback selected the posted quote again.
C28_StaleSelectionRepeats ==
    /\ program = "dashboard" /\ dpc = "success"
    /\ selectedQuote = dQuote
    /\ localStorage.recentQuoteIds[Len(localStorage.recentQuoteIds)] = dQuote.id
    /\ dQuote \notin getRandomQuoteExcluding(localStorage.recentQuoteIds)
    /\ getRandomQuoteExcluding(localStorage.recentQuoteIds) # {}

\* C29: for every stored state, interval and clock value,
\* getTimeUntilNextPost(interval).canPostNow equals shouldPost(interval);
\* after recordPostedQuote at time t both report that posting is not due at
\* every time before t + interval and is due from t + interval on.
C29_CanPostNowIsShouldPost ==
    (program = "schedule" /\ dpc = "timed") =>
        /\ countdown.canPostNow = due
        /\ posts > 0 =>
              due = (now >= localStorage.lastPostTimestamp
                             + IntervalMs(intervalHours))

\* A post was recorded, the clock stands exactly one interval of eight hours
\* later, and both functions report that posting is due.
C29_Witness ==
    /\ program = "schedule" /\ dpc = "timed" /\ posts > 0
    /\ intervalHours = 8
    /\ now = localStorage.lastPostTimestamp + 28800000
    /\ due /\ countdown.canPostNow
    /\ countdown.hours = 0 /\ countdown.seconds = 0

\* Both runs have saved.
BothRunsDone == program = "overlap" /\ \A p \in Runs : procs[p].pc = "done"

\* C30: when two bot runs overlap on the same state file and both publish
\* successfully, the persisted state after both have finished contains both
\* posted quote ids in recentQuoteIds and a totalPostsCount increased by two.
C30_NoLostUpdate ==
    BothRunsDone =>
        /\ \A p \in Runs : procs[p].quote.id \in Range(file.recentQuoteIds)
        /\ file.totalPostsCount = 2

\* Both runs loaded the empty history before either saved; the relay holds
\* the posts of both, the state file records one post.
C30_LostUpdate ==
    /\ BothRunsDone
    /\ \A p \in Runs : procs[p].state = ZeroState
    /\ procs[1].quote # procs[2].quote
    /\ Len(relayStore[relays[1]]) >= 2
    /\ file.totalPostsCount = 1 /\ Len(file.recentQuoteIds) = 1

=============================================================================
